---- MODULE Spec2Model ----
(***************************************************************************)
(* Model of the jan-api-gateway provider registry                          *)
(* (domain/model ProviderRegistryService) and of the inference model       *)
(* registry cache (domain/inference_model_registry).                       *)
(*                                                                         *)
(* Strings that the code inspects character by character (names, model     *)
(* identifiers, slugs) are sequences of one-character strings.  A provider *)
(* kind is used as a single lowercase alphanumeric token of a slug.        *)
(***************************************************************************)
EXTENDS Integers, Sequences, FiniteSets, TLC

(* ------------------------------ bounds --------------------------------- *)

\* most provider rows the store may hold
MaxProviders == 2

\* longest model list handed to SetModels / reported by the backend
MaxModels == 2

\* the most frames a backend emits in one streamed completion
MaxChunks == 3
MaxRows == 3

(* ------------------------------ strings -------------------------------- *)

NoChars == << >>

UpperChars == {"A", "B", "J"}

\* the characters matched by [a-z0-9]; kind tokens are lowercase words
LowerAlnum == {"a", "b", "j", "m", "n", "1", "2", "3", "4", "5", "custom", "openai", "openrouter", "provider"}

ToLowerChar(c) == IF c = "A" THEN "a" ELSE IF c = "B" THEN "b" ELSE IF c = "J" THEN "j" ELSE c

ToLower(s) == [i \in 1..Len(s) |-> ToLowerChar(s[i])]

RECURSIVE TrimLeft(_, _)
TrimLeft(s, c) == IF s # << >> /\ Head(s) = c THEN TrimLeft(Tail(s), c) ELSE s

RECURSIVE TrimRight(_, _)
TrimRight(s, c) ==
    IF s # << >> /\ s[Len(s)] = c THEN TrimRight(SubSeq(s, 1, Len(s) - 1), c) ELSE s

Trim(s, c) == TrimRight(TrimLeft(s, c), c)

TrimSpace(s) == Trim(s, " ")

\* slugRegex.ReplaceAllString(s, "-"): every maximal run of characters
\* outside [a-z0-9] becomes one "-"
RECURSIVE ReplaceRuns(_, _)
ReplaceRuns(s, inRun) ==
    IF s = << >> THEN << >>
    ELSE IF Head(s) \in LowerAlnum THEN <<Head(s)>> \o ReplaceRuns(Tail(s), FALSE)
    ELSE IF inRun THEN ReplaceRuns(Tail(s), TRUE)
    ELSE <<"-">> \o ReplaceRuns(Tail(s), TRUE)

slugify(input) == Trim(ReplaceRuns(ToLower(TrimSpace(input)), FALSE), "-")

slugCandidate(kind, name) == <<kind, "-">> \o name

\* fmt.Sprintf("%d", n) for the small counters of the model
Digits(n) == <<CASE n = 1 -> "1" [] n = 2 -> "2" [] n = 3 -> "3" [] n = 4 -> "4" [] OTHER -> "5">>

(* --------------------------- domain constants -------------------------- *)

ProviderOpenAI == "openai"

ProviderOpenRouter == "openrouter"

ProviderCustom == "custom"

ModelCatalogStatusInit == "init"

ModelCatalogStatusFilled == "filled"

ModelCatalogStatusUpdated == "updated"

\* organization.DEFAULT_ORGANIZATION.ID
DefaultOrgID == 1

\* an optional value (a nil-able pointer) is a sequence of at most one element
Nil == << >>

Some(x) == <<x>>

(* ------------------------------- state --------------------------------- *)

VARIABLES
    providers,       \* provider rows, in primary-key order (row i has ID i)
    providerModels,  \* provider-model rows, in primary-key order
    catalogs,        \* model-catalog rows, in primary-key order
    lastOp,          \* the last operation run, with its inputs and results
    reg,             \* per request task: a RegisterProvider call in progress
    ups,             \* per request task: a SyncProviderModels call in progress
    jobs,            \* per request task: a model-cache operation in progress
    cache,           \* the entries of the model cache
    backend,         \* the model list the inference backend reports, if reachable
    stream           \* the streaming completion in progress, if any

regVars == <<providers, providerModels, catalogs>>

\* the calls in progress of concurrent request tasks
taskVars == <<reg, ups, jobs>>

\* the model cache and the backend behind it
cacheVars == <<cache, backend>>

vars == <<providers, providerModels, catalogs, lastOp, reg, ups, jobs, cache, backend,
          stream>>

\* the request tasks that run concurrently
Tasks == {"t1", "t2"}

IdleTask == [pc |-> "idle"]

(* --------------------------- provider store ---------------------------- *)

\* a filter with every optional condition absent
NoProviderFilter ==
    [slug |-> Nil, org |-> Nil, kind |-> Nil, active |-> Nil, project |-> Nil,
     projectIDs |-> Nil, withoutProject |-> FALSE]

\* the WHERE clause of the provider repository: every condition that is set
\* must hold
ProviderMatches(p, f) ==
    /\ f.slug = Nil \/ Some(p.slug) = f.slug
    /\ f.org = Nil \/ p.org = f.org
    /\ f.kind = Nil \/ Some(p.kind) = f.kind
    /\ f.active = Nil \/ Some(p.active) = f.active
    /\ f.project = Nil \/ p.project = f.project
    /\ f.projectIDs = Nil \/ (p.project # Nil /\ p.project[1] \in f.projectIDs[1])
    /\ ~f.withoutProject \/ p.project = Nil

ProviderFindByFilter(store, f) == SelectSeq(store, LAMBDA p : ProviderMatches(p, f))

ProviderCount(store, f) == Len(ProviderFindByFilter(store, f))

\* providerRepo.Update saves the whole row under its primary key
ProviderUpdate(store, p) == [store EXCEPT ![p.id] = p]

\* providerRepo.Create assigns the next primary key
ProviderCreate(store, p) == Append(store, [p EXCEPT !.id = Len(store) + 1])

(* --------------------------- RegisterProvider -------------------------- *)

providerKindFromVendor(vendor) ==
    CASE vendor = "openrouter" -> ProviderOpenRouter
      [] vendor = "openai" -> ProviderOpenAI
      [] OTHER -> ProviderCustom

\* the loop of generateUniqueSlug from the given counter on
RECURSIVE SlugLoop(_, _, _, _)
SlugLoop(store, candidate, slug, counter) ==
    IF ProviderCount(store, [NoProviderFilter EXCEPT !.slug = Some(slug)]) = 0
    THEN slug
    ELSE SlugLoop(store, candidate, candidate \o <<"-">> \o Digits(counter + 1), counter + 1)

\* a slug generator that returns the candidate without looking it up
generateUniqueSlugUnchecked(store, base) ==
    LET c == slugify(base)
    IN IF c = << >> THEN <<"provider">> ELSE c

generateUniqueSlug(store, base) ==
    LET c == slugify(base)
        candidate == IF c = << >> THEN <<"provider">> ELSE c
    IN SlugLoop(store, candidate, candidate, 1)

\* the organization a registration is filed under
RegisterOrg(input) == Some(IF input.org # 0 THEN input.org ELSE DefaultOrgID)

RegisterProject(input) == IF input.project # 0 THEN Some(input.project) ELSE Nil

\* a uniqueness filter that counts active providers only
KindScopeFilterActiveOnly(kind, org, project) ==
    IF project # Nil
    THEN [NoProviderFilter EXCEPT !.kind = Some(kind), !.org = org, !.project = project,
                                  !.active = Some(TRUE)]
    ELSE [NoProviderFilter EXCEPT !.kind = Some(kind), !.org = org, !.withoutProject = TRUE,
                                  !.active = Some(TRUE)]

\* the uniqueness filter RegisterProvider counts with
KindScopeFilter(kind, org, project) ==
    IF project # Nil
    THEN [NoProviderFilter EXCEPT !.kind = Some(kind), !.org = org, !.project = project]
    ELSE [NoProviderFilter EXCEPT !.kind = Some(kind), !.org = org, !.withoutProject = TRUE]

\* the validation that precedes every store access; "ok" when it passes
RegisterValidate(input) ==
    IF TrimSpace(input.name) = << >> THEN "name_required"
    ELSE IF input.baseURL = "" THEN "base_url_required"
    ELSE IF input.baseURL = "malformed" THEN "base_url_invalid"
    ELSE "ok"

\* the kind check alone: TRUE when the registration may go on
KindCheckPasses(store, kind, org, project) ==
    kind = ProviderCustom \/ ProviderCount(store, KindScopeFilter(kind, org, project)) = 0

\* base URLs are tokens: "" is blank, "malformed" is one url.ParseRequestURI
\* rejects, a token ending in "/" carries trailing slashes
TrimmedURL == [u \in {"ok/", "ok2/"} |-> IF u = "ok/" THEN "ok" ELSE "ok2"]

\* normalizeURL: the URL without its trailing slashes
normalizeURL(baseURL) == IF baseURL \in DOMAIN TrimmedURL THEN TrimmedURL[baseURL] ELSE baseURL

\* crypto.EncryptString: the cipher text for a key under a secret
EncryptString(secret, key) == <<"enc", secret, key>>

HintLen == 4

\* apiKeyHint: the last four characters of the key, none for a shorter key
apiKeyHint(key) ==
    IF Len(key) < HintLen THEN Nil ELSE Some(SubSeq(key, Len(key) - HintLen + 1, Len(key)))

\* sanitizeMetadata: keys and values trimmed, blank keys dropped; the nil map
\* (the empty function) when nothing is left
sanitizeMetadata(meta) ==
    LET keys == {k \in DOMAIN meta : TrimSpace(k) # << >>}
    IN [t \in {TrimSpace(k) : k \in keys} |->
           TrimSpace(meta[CHOOSE k \in keys : TrimSpace(k) = t])]

\* idgen.GenerateSecureID("prov", 24): an identifier no stored row carries
GenerateSecureID(store) == <<"prov", Len(store) + 1>>

\* the API key encrypted under the configured secret; empty without a key
EncryptedKey(secret, key) == IF key # << >> THEN EncryptString(TrimSpace(secret), key) ELSE << >>

NewProvider(input, slug, publicID) ==
    [id |-> 0, publicID |-> publicID, slug |-> slug,
     org |-> RegisterOrg(input), project |-> RegisterProject(input),
     kind |-> providerKindFromVendor(input.vendor), name |-> TrimSpace(input.name),
     baseURL |-> normalizeURL(input.baseURL),
     encryptedAPIKey |-> EncryptedKey(input.secret, TrimSpace(input.apiKey)),
     apiKeyHint |-> apiKeyHint(TrimSpace(input.apiKey)),
     metadata |-> sanitizeMetadata(input.metadata),
     active |-> input.active, synced |-> FALSE]

\* a registration that stores the row before it looks for the secret
RegisterResultCreateFirst(store, input) ==
    LET kind == providerKindFromVendor(input.vendor)
        v == RegisterValidate(input)
        created == ProviderCreate(store,
                       NewProvider(input, generateUniqueSlug(store, slugCandidate(kind, TrimSpace(input.name))),
                                   GenerateSecureID(store)))
    IN IF v # "ok" THEN [err |-> v, store |-> store]
       ELSE IF ~KindCheckPasses(store, kind, RegisterOrg(input), RegisterProject(input))
       THEN [err |-> "kind_exists", store |-> store]
       ELSE IF TrimSpace(input.apiKey) # << >> /\ TrimSpace(input.secret) = << >>
       THEN [err |-> "secret_not_configured", store |-> created]
       ELSE [err |-> "ok", store |-> created]

\* the result of RegisterProvider on a store: the error (or "ok") and the
\* store afterwards
RegisterResult(store, input) ==
    LET kind == providerKindFromVendor(input.vendor)
        v == RegisterValidate(input)
    IN IF v # "ok" THEN [err |-> v, store |-> store]
       ELSE IF ~KindCheckPasses(store, kind, RegisterOrg(input), RegisterProject(input))
       THEN [err |-> "kind_exists", store |-> store]
       ELSE IF TrimSpace(input.apiKey) # << >> /\ TrimSpace(input.secret) = << >>
       THEN [err |-> "secret_not_configured", store |-> store]
       ELSE [err |-> "ok",
             store |-> ProviderCreate(store,
                 NewProvider(input, generateUniqueSlug(store, slugCandidate(kind, TrimSpace(input.name))),
                             GenerateSecureID(store)))]

RegisterProvider(input) ==
    /\ Len(providers) < MaxProviders
    /\ LET r == RegisterResult(providers, input)
       IN /\ providers' = r.store
          /\ lastOp' = [op |-> "register", input |-> input, err |-> r.err]
    /\ UNCHANGED <<providerModels, catalogs, taskVars, cacheVars, stream>>

(* -------------------------- SyncProviderModels ------------------------- *)

\* a discovered model (chatclient.Model): id, canonical slug, raw vendor fields

catalogPublicID(model) ==
    IF slugify(model.slug) # << >> THEN slugify(model.slug) ELSE slugify(model.id)

\* modelCatalogRepo.FindByPublicID: the row, or Nil
CatalogFindByPublicID(cats, publicID) ==
    LET found == SelectSeq(cats, LAMBDA c : c.publicID = publicID)
    IN IF found = << >> THEN Nil ELSE Some(Head(found))

CatalogUpdate(cats, c) == [cats EXCEPT ![c.id] = c]

CatalogCreated(cats, c) == [c EXCEPT !.id = Len(cats) + 1]

buildModelCatalogFromModel(kind, model) ==
    [id |-> 0, publicID |-> << >>, data |-> model.raw,
     status |-> IF kind = ProviderOpenRouter THEN ModelCatalogStatusFilled
                ELSE ModelCatalogStatusInit]

\* an upsert without the guard that preserves filled and updated rows
upsertCatalogAlwaysWrite(cats, existing, kind, model) ==
    LET built == [buildModelCatalogFromModel(kind, model) EXCEPT !.publicID = catalogPublicID(model)]
    IN IF existing # Nil
       THEN LET c == [built EXCEPT !.id = existing[1].id]
            IN [catalog |-> c, cats |-> CatalogUpdate(cats, c), wrote |-> TRUE]
       ELSE LET c == CatalogCreated(cats, built)
            IN [catalog |-> c, cats |-> Append(cats, c), wrote |-> TRUE]

\* an upsert that keeps the status of a filled or updated row but still
\* saves the newly built fields over it
upsertCatalogKeepStatusOnly(cats, existing, kind, model) ==
    LET built == [buildModelCatalogFromModel(kind, model) EXCEPT !.publicID = catalogPublicID(model)]
    IN IF existing # Nil
       THEN LET ex == existing[1]
                c == [built EXCEPT !.id = ex.id,
                                   !.status = IF ex.status = ModelCatalogStatusInit
                                              THEN @ ELSE ex.status]
            IN [catalog |-> c, cats |-> CatalogUpdate(cats, c), wrote |-> TRUE]
       ELSE LET c == CatalogCreated(cats, built)
            IN [catalog |-> c, cats |-> Append(cats, c), wrote |-> TRUE]

\* the branch of upsertCatalog taken once the existing row is known:
\* the row returned, the store afterwards, and whether a row was written
upsertCatalogWith(cats, existing, kind, model) ==
    LET built == [buildModelCatalogFromModel(kind, model) EXCEPT !.publicID = catalogPublicID(model)]
    IN IF existing # Nil
       THEN LET ex == existing[1]
                withID == [built EXCEPT !.id = ex.id]
            IN IF ex.status = ModelCatalogStatusFilled \/ ex.status = ModelCatalogStatusUpdated
               THEN [catalog |-> ex, cats |-> cats, wrote |-> FALSE]
               ELSE LET c == IF withID.status = ModelCatalogStatusFilled
                                 /\ ex.status = ModelCatalogStatusUpdated
                             THEN [withID EXCEPT !.status = ex.status] ELSE withID
                    IN [catalog |-> c, cats |-> CatalogUpdate(cats, c), wrote |-> TRUE]
       ELSE LET c == CatalogCreated(cats, built)
            IN [catalog |-> c, cats |-> Append(cats, c), wrote |-> TRUE]

\* an upsert that never looks the public id up and creates a row every time
upsertCatalogAlwaysCreate(cats, kind, model) ==
    LET built == [buildModelCatalogFromModel(kind, model)
                     EXCEPT !.publicID = catalogPublicID(model)]
        c == CatalogCreated(cats, built)
    IN [catalog |-> c, cats |-> Append(cats, c), wrote |-> TRUE]

upsertCatalog(cats, kind, model) ==
    upsertCatalogWith(cats, CatalogFindByPublicID(cats, catalogPublicID(model)), kind, model)

\* providerModelRepo.FindByFilter on provider id and model key
ProviderModelFind(pms, providerID, modelKey) ==
    SelectSeq(pms, LAMBDA pm : pm.provider = providerID /\ pm.key = modelKey)

buildProviderModelFromRaw(provider, catalogID, model) ==
    [id |-> 0, provider |-> provider.id, catalog |-> catalogID, key |-> model.id,
     data |-> model.raw, active |-> provider.active]

updateProviderModelFromRaw(pm, provider, catalogID, model) ==
    [pm EXCEPT !.catalog = catalogID, !.data = model.raw, !.active = provider.active]

upsertProviderModel(pms, provider, catalog, model) ==
    LET modelKey == TrimSpace(model.id)
        existing == ProviderModelFind(pms, provider.id, modelKey)
        catalogID == Some(catalog.id)
    IN IF modelKey = << >> THEN [err |-> "model_id_missing", pms |-> pms, pm |-> Nil]
       ELSE IF Len(existing) > 0
       THEN LET pm == updateProviderModelFromRaw(existing[1], provider, catalogID, model)
            IN [err |-> "ok", pms |-> [pms EXCEPT ![pm.id] = pm], pm |-> Some(pm)]
       ELSE LET pm == [buildProviderModelFromRaw(provider, catalogID, model)
                          EXCEPT !.id = Len(pms) + 1]
            IN [err |-> "ok", pms |-> Append(pms, pm), pm |-> Some(pm)]

\* the loop of syncModels over the models still to do; acc carries the two
\* stores, the results so far, the ids of the catalog rows written, and
\* faults: the model ids for which the catalog store's lookup fails
RECURSIVE syncModels(_, _, _)
syncModels(provider, models, acc) ==
    IF models = << >> THEN acc
    ELSE IF Head(models).id \in acc.faults
    THEN [acc EXCEPT !.err = "store_failed", !.results = << >>]
    ELSE LET uc == upsertCatalog(acc.cats, provider.kind, Head(models))
             up == upsertProviderModel(acc.pms, provider, uc.catalog, Head(models))
             wrote == IF uc.wrote THEN acc.wrote \cup {uc.catalog.id} ELSE acc.wrote
         IN IF up.err # "ok"
            THEN [acc EXCEPT !.err = up.err, !.cats = uc.cats, !.wrote = wrote,
                             !.results = << >>]
            ELSE syncModels(provider, Tail(models),
                     [err |-> "ok", cats |-> uc.cats, pms |-> up.pms, wrote |-> wrote,
                      results |-> Append(acc.results,
                                         [pm |-> up.pm[1], catalog |-> uc.catalog]),
                      faults |-> acc.faults])

\* SyncProviderModels while the store fails for the model ids in faults
SyncWithFaults(pid, models, faults) ==
    /\ pid \in DOMAIN providers
    /\ LET provider == providers[pid]
           r == syncModels(provider, models,
                    [err |-> "ok", cats |-> catalogs, pms |-> providerModels,
                     wrote |-> {}, results |-> << >>, faults |-> faults])
       IN /\ catalogs' = r.cats
          /\ providerModels' = r.pms
          /\ providers' = IF r.err = "ok"
                          THEN ProviderUpdate(providers, [provider EXCEPT !.synced = TRUE])
                          ELSE providers
          /\ lastOp' = [op |-> "sync", provider |-> pid, models |-> models, err |-> r.err,
                        results |-> r.results, wrote |-> r.wrote, faults |-> faults]
    /\ UNCHANGED <<taskVars, cacheVars, stream>>

\* SyncProviderModels with a store that answers every call
SyncProviderModels(pid, models) == SyncWithFaults(pid, models, {})

(* ----------------------------- UpdateProvider -------------------------- *)

\* the patch carries optional fields; an absent field is Nil. patch.secret is
\* the MODEL_PROVIDER_SECRET in force when the call is made. Each step takes
\* and gives [err, provider]: the object as changed so far.

\* input.Name (part_007 lines 294-300)
applyName(acc, patch) ==
    IF acc.err # "ok" \/ patch.name = Nil THEN acc
    ELSE IF TrimSpace(patch.name[1]) = << >> THEN [acc EXCEPT !.err = "name_required"]
    ELSE [acc EXCEPT !.provider.name = TrimSpace(patch.name[1])]

\* input.BaseURL (lines 301-310)
applyBaseURL(acc, patch) ==
    IF acc.err # "ok" \/ patch.baseURL = Nil THEN acc
    ELSE IF patch.baseURL[1] = "" THEN [acc EXCEPT !.err = "base_url_required"]
    ELSE IF patch.baseURL[1] = "malformed" THEN [acc EXCEPT !.err = "base_url_invalid"]
    ELSE [acc EXCEPT !.provider.baseURL = normalizeURL(patch.baseURL[1])]

\* a key step that clears the stored key when the patch carries none
applyAPIKeyOrClear(acc, patch) ==
    IF acc.err # "ok" THEN acc
    ELSE IF patch.apiKey = Nil \/ TrimSpace(patch.apiKey[1]) = << >>
    THEN [acc EXCEPT !.provider.encryptedAPIKey = << >>, !.provider.apiKeyHint = Nil]
    ELSE IF TrimSpace(patch.secret) = << >> THEN [acc EXCEPT !.err = "secret_not_configured"]
    ELSE [acc EXCEPT
             !.provider.encryptedAPIKey = EncryptString(TrimSpace(patch.secret), TrimSpace(patch.apiKey[1])),
             !.provider.apiKeyHint = apiKeyHint(TrimSpace(patch.apiKey[1]))]

\* input.APIKey (lines 311-329)
applyAPIKey(acc, patch) ==
    IF acc.err # "ok" \/ patch.apiKey = Nil THEN acc
    ELSE IF TrimSpace(patch.apiKey[1]) = << >>
    THEN [acc EXCEPT !.provider.encryptedAPIKey = << >>, !.provider.apiKeyHint = Nil]
    ELSE IF TrimSpace(patch.secret) = << >> THEN [acc EXCEPT !.err = "secret_not_configured"]
    ELSE [acc EXCEPT
             !.provider.encryptedAPIKey = EncryptString(TrimSpace(patch.secret), TrimSpace(patch.apiKey[1])),
             !.provider.apiKeyHint = apiKeyHint(TrimSpace(patch.apiKey[1]))]

\* input.Metadata and input.Active (lines 330-335)
applyMetadataAndActive(acc, patch) ==
    IF acc.err # "ok" THEN acc
    ELSE [acc EXCEPT
             !.provider.metadata = IF patch.metadata # Nil THEN sanitizeMetadata(patch.metadata[1]) ELSE @,
             !.provider.active = IF patch.active # Nil THEN patch.active[1] ELSE @]

\* the error (or "ok") and the provider object as UpdateProvider leaves it
UpdateProviderResult(provider, patch) ==
    applyMetadataAndActive(
        applyAPIKey(applyBaseURL(applyName([err |-> "ok", provider |-> provider], patch), patch),
                    patch),
        patch)

\* the object is saved only when every supplied field was accepted (lines 336-338)
UpdateProvider(pid, patch) ==
    /\ pid \in DOMAIN providers
    /\ LET r == UpdateProviderResult(providers[pid], patch)
       IN /\ providers' = IF r.err = "ok" THEN ProviderUpdate(providers, r.provider)
                          ELSE providers
          /\ lastOp' = [op |-> "update", provider |-> pid, patch |-> patch, err |-> r.err,
                        object |-> r.provider]
    /\ UNCHANGED <<providerModels, catalogs, taskVars, cacheVars, stream>>

(* ------------------------------ resolution ----------------------------- *)

\* appendUnique of ListAccessibleProviders: items not yet seen, in order
RECURSIVE appendUnique(_, _)
appendUnique(result, items) ==
    IF items = << >> THEN result
    ELSE IF \E i \in DOMAIN result : result[i].id = Head(items).id
    THEN appendUnique(result, Tail(items))
    ELSE appendUnique(Append(result, Head(items)), Tail(items))

\* a listing that puts the organization's providers before the projects'
ListAccessibleProvidersOrgFirst(store, organizationID, projectIDs) ==
    LET projectProviders ==
            IF projectIDs # {}
            THEN ProviderFindByFilter(store,
                     [NoProviderFilter EXCEPT !.org = Some(organizationID),
                                              !.projectIDs = Some(projectIDs)])
            ELSE << >>
        orgProviders ==
            ProviderFindByFilter(store,
                [NoProviderFilter EXCEPT !.org = Some(organizationID), !.withoutProject = TRUE])
        globalProviders ==
            ProviderFindByFilter(store,
                [NoProviderFilter EXCEPT !.org = Some(DefaultOrgID), !.withoutProject = TRUE])
    IN appendUnique(appendUnique(appendUnique(<< >>, orgProviders), projectProviders),
                    globalProviders)

ListAccessibleProviders(store, organizationID, projectIDs) ==
    LET projectProviders ==
            IF projectIDs # {}
            THEN ProviderFindByFilter(store,
                     [NoProviderFilter EXCEPT !.org = Some(organizationID),
                                              !.projectIDs = Some(projectIDs)])
            ELSE << >>
        orgProviders ==
            ProviderFindByFilter(store,
                [NoProviderFilter EXCEPT !.org = Some(organizationID), !.withoutProject = TRUE])
        globalProviders ==
            ProviderFindByFilter(store,
                [NoProviderFilter EXCEPT !.org = Some(DefaultOrgID), !.withoutProject = TRUE])
    IN appendUnique(appendUnique(appendUnique(<< >>, projectProviders), orgProviders),
                    globalProviders)

\* providerModelRepo.FindByFilter on provider ids, model key and active = true
ProviderModelFindActive(pms, providerIDs, key) ==
    SelectSeq(pms, LAMBDA pm : pm.provider \in providerIDs /\ pm.key = key /\ pm.active)

\* the first provider of the list whose id is in hasModel, or Nil
RECURSIVE FirstWithModel(_, _)
FirstWithModel(list, hasModel) ==
    IF list = << >> THEN Nil
    ELSE IF Head(list).id \in hasModel THEN Some(Head(list))
    ELSE FirstWithModel(Tail(list), hasModel)

\* a resolution that takes the provider of the first matching row instead of
\* the first provider of the priority order
GetProviderForModelByRow(store, pms, modelKey, organizationID, projectIDs) ==
    LET list == ListAccessibleProviders(store, organizationID, projectIDs)
        providerIDs == {list[i].id : i \in DOMAIN list}
        found == ProviderModelFindActive(pms, providerIDs, modelKey)
    IN IF Len(list) = 0 THEN [provider |-> Nil, err |-> "no_accessible_providers"]
       ELSE IF Len(found) = 0 THEN [provider |-> Nil, err |-> "model_not_found"]
       ELSE [provider |-> Some(store[found[1].provider]), err |-> "ok"]

GetProviderForModel(store, pms, modelKey, organizationID, projectIDs) ==
    LET list == ListAccessibleProviders(store, organizationID, projectIDs)
        providerIDs == {list[i].id : i \in DOMAIN list}
        found == ProviderModelFindActive(pms, providerIDs, modelKey)
        hasModel == {found[i].provider : i \in DOMAIN found}
        first == FirstWithModel(list, hasModel)
    IN IF TrimSpace(modelKey) = << >> THEN [provider |-> Nil, err |-> "model_key_required"]
       ELSE IF Len(list) = 0 THEN [provider |-> Nil, err |-> "no_accessible_providers"]
       ELSE IF Len(found) = 0 THEN [provider |-> Nil, err |-> "model_not_found"]
       ELSE IF first # Nil THEN [provider |-> first, err |-> "ok"]
       ELSE [provider |-> Nil, err |-> "no_valid_provider"]

\* the built-in provider; it is no row of the store (id 0)
DefaultProvider ==
    [id |-> 0, publicID |-> << >>, slug |-> << >>, org |-> Nil, project |-> Nil, kind |-> "jan",
     name |-> <<"Jan">>, baseURL |-> "jan", encryptedAPIKey |-> << >>, apiKeyHint |-> Nil,
     metadata |-> << >>, active |-> TRUE, synced |-> FALSE]

\* a fallback that forgets to raise the flag
GetProviderForModelOrDefaultNoFlag(store, pms, modelKey, organizationID, projectIDs) ==
    LET r == GetProviderForModel(store, pms, modelKey, organizationID, projectIDs)
    IN IF r.err = "ok"
       THEN [provider |-> r.provider[1], usedDefault |-> FALSE, err |-> r.err]
       ELSE [provider |-> DefaultProvider, usedDefault |-> FALSE, err |-> r.err]

GetProviderForModelOrDefaultResult(store, pms, modelKey, organizationID, projectIDs) ==
    LET r == GetProviderForModel(store, pms, modelKey, organizationID, projectIDs)
    IN IF r.err = "ok"
       THEN [provider |-> r.provider[1], usedDefault |-> FALSE, err |-> r.err]
       ELSE [provider |-> DefaultProvider, usedDefault |-> TRUE, err |-> r.err]

GetProviderForModelOrDefault(modelKey, organizationID, projectIDs) ==
    /\ LET r == GetProviderForModelOrDefaultResult(providers, providerModels, modelKey,
                                                   organizationID, projectIDs)
       IN lastOp' = [op |-> "resolve", key |-> modelKey, org |-> organizationID,
                     projectIDs |-> projectIDs, provider |-> r.provider,
                     usedDefault |-> r.usedDefault, err |-> r.err]
    /\ UNCHANGED <<regVars, taskVars, cacheVars, stream>>

(* -------------------------- the model cache ---------------------------- *)

\* the configured backend URL of the registry (chatClient.BaseURL, trimmed)
serviceBaseURL == <<"b">>

\* base64 of a key part: an injective encoding, kept apart from the name
sanitizeKeyPart(s) == <<"b64">> \o s

\* JSON texts: a list, the null a nil slice marshals to, and an object
JSONList(items) == <<"list", items>>
JSONNull == <<"null">>
JSONMap(m) == <<"map", m>>

\* json.Marshal of a slice that is nil while nothing has been appended
MarshalAppended(items) == IF items = << >> THEN JSONNull ELSE JSONList(items)

\* json.Unmarshal into a slice: null gives the nil (empty) slice
UnmarshalList(json) == IF json = JSONNull THEN << >> ELSE json[2]

Range(seq) == {seq[i] : i \in DOMAIN seq}

\* the three kinds of entry: the aggregate list (ModelsCacheKey), the
\* per-backend id lists (RegistryEndpointModelsKey:<name>) and the reverse
\* map (RegistryModelEndpointsKey); an absent entry is Nil or not in the domain
NoEntries == [k \in {} |-> JSONNull]

EmptyCache == [models |-> Nil, endpointModels |-> NoEntries, modelEndpoints |-> Nil]

\* cache.Set and cache.Unlink on one per-backend key
SetEntry(entries, key, json) ==
    [k \in DOMAIN entries \cup {key} |-> IF k = key THEN json ELSE entries[k]]

UnlinkEntry(entries, key) == [k \in DOMAIN entries \ {key} |-> entries[k]]

hasModelsChanged(c, serviceName, newModels) ==
    LET cacheKey == sanitizeKeyPart(serviceName)
    IN IF cacheKey \notin DOMAIN c.endpointModels THEN TRUE
       ELSE LET cachedIDs == UnmarshalList(c.endpointModels[cacheKey])
            IN IF Len(cachedIDs) # Len(newModels) THEN TRUE
               ELSE \E i \in DOMAIN newModels : newModels[i] \notin Range(cachedIDs)

\* one endpoint per occurrence of the id in the list
Occurrences(models, id) == SelectSeq(models, LAMBDA m : m = id)

EndpointsOf(models, endpoint) ==
    [id \in Range(models) |-> [i \in 1..Len(Occurrences(models, id)) |-> endpoint]]

\* a rebuild that attributes every model to the backends whose per-backend
\* entry lists it
rebuildModelToEndpointsByEntry(c) ==
    IF c.models = Nil THEN [err |-> "cache_miss", cache |-> c, writes |-> 0]
    ELSE LET allModels == UnmarshalList(c.models[1])
             holders(id) == {k \in DOMAIN c.endpointModels :
                                 id \in Range(UnmarshalList(c.endpointModels[k]))}
             modelToEndpoints ==
                 [id \in {m \in Range(allModels) : holders(m) # {}} |->
                      <<CHOOSE k \in holders(id) : TRUE>>]
         IN [err |-> "ok", writes |-> 1,
             cache |-> [c EXCEPT !.modelEndpoints = Some(JSONMap(modelToEndpoints))]]

\* rebuilds the reverse map from the aggregate list; every model is
\* attributed to the configured backend URL
rebuildModelToEndpointsMapping(c) ==
    IF c.models = Nil THEN [err |-> "cache_miss", cache |-> c, writes |-> 0]
    ELSE LET allModels == UnmarshalList(c.models[1])
             modelToEndpoints == IF TrimSpace(serviceBaseURL) # << >>
                                 THEN EndpointsOf(allModels, serviceBaseURL)
                                 ELSE EndpointsOf(<< >>, serviceBaseURL)
         IN [err |-> "ok", writes |-> 1,
             cache |-> [c EXCEPT !.modelEndpoints = Some(JSONMap(modelToEndpoints))]]

\* a SetModels that writes the aggregate list and no per-backend entry
SetModelsAggregateOnly(c, serviceName, models) ==
    IF TrimSpace(serviceName) = << >>
    THEN [err |-> "service_name_empty", cache |-> c, writes |-> 0, cleared |-> FALSE]
    ELSE IF ~hasModelsChanged(c, serviceName, models)
    THEN [err |-> "ok", cache |-> c, writes |-> 0, cleared |-> FALSE]
    ELSE LET written == [models |-> Some(JSONList(models)), endpointModels |-> NoEntries,
                         modelEndpoints |-> Nil]
             rebuilt == rebuildModelToEndpointsMapping(written)
         IN [err |-> rebuilt.err, cache |-> rebuilt.cache,
             writes |-> 4 + rebuilt.writes, cleared |-> TRUE]

SetModelsResult(c, serviceName, models) ==
    IF TrimSpace(serviceName) = << >>
    THEN [err |-> "service_name_empty", cache |-> c, writes |-> 0, cleared |-> FALSE]
    ELSE IF ~hasModelsChanged(c, serviceName, models)
    THEN [err |-> "ok", cache |-> c, writes |-> 0, cleared |-> FALSE]
    ELSE LET serviceCacheKey == sanitizeKeyPart(serviceName)
             written == [models |-> Some(JSONList(models)),
                         endpointModels |-> SetEntry(NoEntries, serviceCacheKey, JSONList(models)),
                         modelEndpoints |-> Nil]
             rebuilt == rebuildModelToEndpointsMapping(written)
         IN [err |-> rebuilt.err, cache |-> rebuilt.cache,
             writes |-> 5 + rebuilt.writes, cleared |-> TRUE]

\* a removal that goes on to rewrite the aggregate and the reverse map when
\* the per-backend entry is absent
RemoveServiceModelsAlways(c, serviceName) ==
    LET serviceCacheKey == sanitizeKeyPart(serviceName)
    IN IF TrimSpace(serviceName) = << >>
       THEN [err |-> "service_name_empty", cache |-> c, writes |-> 0]
       ELSE LET serviceModelSet == IF serviceCacheKey \in DOMAIN c.endpointModels
                                   THEN Range(UnmarshalList(c.endpointModels[serviceCacheKey]))
                                   ELSE {}
                existing == IF c.models = Nil THEN << >> ELSE UnmarshalList(c.models[1])
                filtered == SelectSeq(existing, LAMBDA m : m \notin serviceModelSet)
                written == [c EXCEPT !.endpointModels = UnlinkEntry(@, serviceCacheKey),
                                     !.models = Some(MarshalAppended(filtered))]
                rebuilt == rebuildModelToEndpointsMapping(written)
            IN [err |-> rebuilt.err, cache |-> rebuilt.cache, writes |-> 2 + rebuilt.writes]

RemoveServiceModelsResult(c, serviceName) ==
    LET serviceCacheKey == sanitizeKeyPart(serviceName)
    IN IF TrimSpace(serviceName) = << >>
       THEN [err |-> "service_name_empty", cache |-> c, writes |-> 0]
       ELSE IF serviceCacheKey \notin DOMAIN c.endpointModels
       THEN [err |-> "ok", cache |-> c, writes |-> 0]
       ELSE LET serviceModelSet == Range(UnmarshalList(c.endpointModels[serviceCacheKey]))
                existing == IF c.models = Nil THEN << >> ELSE UnmarshalList(c.models[1])
                filtered == SelectSeq(existing, LAMBDA m : m \notin serviceModelSet)
                written == [c EXCEPT !.endpointModels = UnlinkEntry(@, serviceCacheKey),
                                     !.models = Some(MarshalAppended(filtered))]
                rebuilt == rebuildModelToEndpointsMapping(written)
            IN [err |-> rebuilt.err, cache |-> rebuilt.cache, writes |-> 2 + rebuilt.writes]

\* fetches the backend's list and, when it is not empty, writes all three
\* kinds of entry for the configured backend URL
rebuildModelsFromProvider(c, b) ==
    IF TrimSpace(serviceBaseURL) = << >> \/ b = Nil
    THEN [models |-> << >>, cache |-> c]
    ELSE LET models == b[1]
         IN IF Len(models) > 0
            THEN [models |-> models,
                  cache |-> [models |-> Some(JSONList(models)),
                             endpointModels |-> SetEntry(c.endpointModels,
                                                   sanitizeKeyPart(serviceBaseURL),
                                                   JSONList(models)),
                             modelEndpoints |->
                                 Some(JSONMap(EndpointsOf(models, serviceBaseURL)))]]
            ELSE [models |-> models, cache |-> c]

ListModelsResult(c, b) ==
    IF c.models # Nil
    THEN [models |-> UnmarshalList(c.models[1]), cache |-> c]
    ELSE rebuildModelsFromProvider(c, b)

GetModelToEndpointsResult(c, b) ==
    LET after == IF c.modelEndpoints = Nil THEN rebuildModelsFromProvider(c, b).cache ELSE c
    IN [cache |-> after,
        modelToEndpoints |-> IF after.modelEndpoints = Nil
                             THEN EndpointsOf(<< >>, serviceBaseURL)
                             ELSE after.modelEndpoints[1][2]]

SetModels(serviceName, models) ==
    /\ LET r == SetModelsResult(cache, serviceName, models)
       IN /\ cache' = r.cache
          /\ lastOp' = [op |-> "SetModels", name |-> serviceName, models |-> models,
                        err |-> r.err, writes |-> r.writes, cleared |-> r.cleared]
    /\ UNCHANGED <<regVars, taskVars, backend, stream>>

RemoveServiceModels(serviceName) ==
    /\ LET r == RemoveServiceModelsResult(cache, serviceName)
       IN /\ cache' = r.cache
          /\ lastOp' = [op |-> "RemoveServiceModels", name |-> serviceName,
                        err |-> r.err, writes |-> r.writes]
    /\ UNCHANGED <<regVars, taskVars, backend, stream>>

ListModels ==
    /\ LET r == ListModelsResult(cache, backend)
       IN /\ cache' = r.cache
          /\ lastOp' = [op |-> "ListModels", models |-> r.models]
    /\ UNCHANGED <<regVars, taskVars, backend, stream>>

GetModelToEndpoints ==
    /\ LET r == GetModelToEndpointsResult(cache, backend)
       IN /\ cache' = r.cache
          /\ lastOp' = [op |-> "GetModelToEndpoints",
                        modelToEndpoints |-> r.modelToEndpoints]
    /\ UNCHANGED <<regVars, taskVars, backend, stream>>

\* the TTL of the entries of one kind runs out: "models" is the aggregate
\* list, "endpointModels" the per-backend lists, "modelEndpoints" the reverse map
Expire(kind) ==
    /\ kind \in DOMAIN EmptyCache
    /\ cache[kind] # EmptyCache[kind]
    /\ cache' = [cache EXCEPT ![kind] = EmptyCache[kind]]
    /\ lastOp' = [op |-> "Expire", kind |-> kind]
    /\ UNCHANGED <<regVars, taskVars, backend, stream>>

\* The operations of the registry hold no lock: between two calls to the
\* key-value store another task may run. A job is one operation of one task,
\* advanced one store call (or one backend call) at a time.

JobDone(job, err) == [job EXCEPT !.pc = "done", !.err = err]

\* SetModels for a non-blank name, from hasModelsChanged to the second Set
SetStepResult(job, c) ==
    CASE job.pc = "check" ->
             [cache |-> c,
              job |-> IF hasModelsChanged(c, job.name, job.models)
                      THEN [job EXCEPT !.pc = "unlink_rev"] ELSE JobDone(job, "ok")]
      [] job.pc = "unlink_rev" ->
             [cache |-> [c EXCEPT !.modelEndpoints = Nil],
              job |-> [job EXCEPT !.pc = "unlink_agg"]]
      [] job.pc = "unlink_agg" ->
             [cache |-> [c EXCEPT !.models = Nil],
              job |-> [job EXCEPT !.pc = "del_pattern"]]
      [] job.pc = "del_pattern" ->
             [cache |-> [c EXCEPT !.endpointModels = NoEntries],
              job |-> [job EXCEPT !.pc = "put_svc"]]
      [] job.pc = "put_svc" ->
             [cache |-> [c EXCEPT !.endpointModels =
                            SetEntry(@, sanitizeKeyPart(job.name), JSONList(job.models))],
              job |-> [job EXCEPT !.pc = "put_agg"]]
      [] job.pc = "put_agg" ->
             [cache |-> [c EXCEPT !.models = Some(JSONList(job.models))],
              job |-> [job EXCEPT !.pc = "reb_get"]]

\* RemoveServiceModels for a non-blank name, up to the Set of the filtered list
RemoveStepResult(job, c) ==
    LET serviceCacheKey == sanitizeKeyPart(job.name)
    IN CASE job.pc = "read" ->
                [cache |-> c,
                 job |-> IF serviceCacheKey \notin DOMAIN c.endpointModels
                         THEN JobDone(job, "ok")
                         ELSE [job EXCEPT !.pc = "unlink",
                                          !.models = UnmarshalList(c.endpointModels[serviceCacheKey])]]
         [] job.pc = "unlink" ->
                [cache |-> [c EXCEPT !.endpointModels = UnlinkEntry(@, serviceCacheKey)],
                 job |-> [job EXCEPT !.pc = "get_agg"]]
         [] job.pc = "get_agg" ->
                [cache |-> c,
                 job |-> [job EXCEPT !.pc = "put_filtered",
                                     !.got = IF c.models = Nil THEN << >>
                                             ELSE UnmarshalList(c.models[1])]]
         [] job.pc = "put_filtered" ->
                [cache |-> [c EXCEPT !.models =
                               Some(MarshalAppended(SelectSeq(job.got,
                                        LAMBDA m : m \notin Range(job.models))))],
                 job |-> [job EXCEPT !.pc = "reb_get"]]

\* rebuildModelToEndpointsMapping: the Get of the aggregate, then the Set of
\* the reverse map
RebuildStepResult(job, c) ==
    CASE job.pc = "reb_get" ->
             [cache |-> c,
              job |-> IF c.models = Nil THEN JobDone(job, "cache_miss")
                      ELSE [job EXCEPT !.pc = "reb_put", !.got = UnmarshalList(c.models[1])]]
      [] job.pc = "reb_put" ->
             [cache |-> [c EXCEPT !.modelEndpoints =
                            Some(JSONMap(IF TrimSpace(serviceBaseURL) # << >>
                                         THEN EndpointsOf(job.got, serviceBaseURL)
                                         ELSE EndpointsOf(<< >>, serviceBaseURL)))],
              job |-> JobDone(job, "ok")]

\* ListModels: the Get, then on a miss the backend call and the three Sets of
\* rebuildModelsFromProvider; job.models is the list the call returns and
\* job.got the non-empty list its rebuild fetched
ListStepResult(job, c, b) ==
    CASE job.pc = "get" ->
             [cache |-> c,
              job |-> IF c.models # Nil
                      THEN [JobDone(job, "ok") EXCEPT !.models = UnmarshalList(c.models[1])]
                      ELSE [job EXCEPT !.pc = "fetch"]]
      [] job.pc = "fetch" ->
             [cache |-> c,
              job |-> IF TrimSpace(serviceBaseURL) = << >> \/ b = Nil \/ b = Some(<< >>)
                      THEN [JobDone(job, "ok") EXCEPT !.models = << >>]
                      ELSE [job EXCEPT !.pc = "list_put_agg", !.models = b[1], !.got = b[1]]]
      [] job.pc = "list_put_agg" ->
             [cache |-> [c EXCEPT !.models = Some(JSONList(job.models))],
              job |-> [job EXCEPT !.pc = "list_put_svc"]]
      [] job.pc = "list_put_svc" ->
             [cache |-> [c EXCEPT !.endpointModels =
                            SetEntry(@, sanitizeKeyPart(serviceBaseURL), JSONList(job.models))],
              job |-> [job EXCEPT !.pc = "list_put_rev"]]
      [] job.pc = "list_put_rev" ->
             [cache |-> [c EXCEPT !.modelEndpoints =
                            Some(JSONMap(EndpointsOf(job.models, serviceBaseURL)))],
              job |-> JobDone(job, "ok")]

FirstPc(op) == CASE op = "SetModels" -> "check"
                 [] op = "RemoveServiceModels" -> "read"
                 [] op = "ListModels" -> "get"

\* a task starts its operation
JobBegin(t, op, serviceName, models) ==
    /\ jobs[t].pc = "idle"
    /\ TrimSpace(serviceName) # << >>
    /\ jobs' = [jobs EXCEPT ![t] = [pc |-> FirstPc(op), op |-> op, name |-> serviceName,
                                    models |-> models, got |-> << >>, err |-> "ok"]]
    /\ UNCHANGED <<regVars, lastOp, reg, ups, cacheVars, stream>>

JobAdvance(t, r) ==
    /\ jobs' = [jobs EXCEPT ![t] = r.job]
    /\ cache' = r.cache
    /\ UNCHANGED <<regVars, lastOp, reg, ups, backend, stream>>

SetStep(t) ==
    /\ jobs[t].pc \in {"check", "unlink_rev", "unlink_agg", "del_pattern", "put_svc", "put_agg"}
    /\ JobAdvance(t, SetStepResult(jobs[t], cache))

RemoveStep(t) ==
    /\ jobs[t].pc \in {"read", "unlink", "get_agg", "put_filtered"}
    /\ JobAdvance(t, RemoveStepResult(jobs[t], cache))

RebuildStep(t) ==
    /\ jobs[t].pc \in {"reb_get", "reb_put"}
    /\ JobAdvance(t, RebuildStepResult(jobs[t], cache))

ListStep(t) ==
    /\ jobs[t].pc \in {"get", "fetch", "list_put_agg", "list_put_svc", "list_put_rev"}
    /\ JobAdvance(t, ListStepResult(jobs[t], cache, backend))

\* the periodic check: removes the backend's models when the backend does
\* not answer, otherwise sets them to the list it reports
CheckInferenceModels ==
    /\ TrimSpace(serviceBaseURL) # << >>
    /\ cache' = IF backend = Nil
                THEN RemoveServiceModelsResult(cache, serviceBaseURL).cache
                ELSE SetModelsResult(cache, serviceBaseURL, backend[1]).cache
    /\ lastOp' = [op |-> "CheckInferenceModels"]
    /\ UNCHANGED <<regVars, taskVars, backend, stream>>

\* the backend goes down, comes back, or reports another list
BackendChange(b) ==
    /\ backend # b
    /\ backend' = b
    /\ lastOp' = [op |-> "BackendChange"]
    /\ UNCHANGED <<regVars, taskVars, cache, stream>>

(* ------------------------- the completion relay ------------------------ *)

StatusOK == 200
StatusBadRequest == 400

NoStream == [pc |-> "idle"]

\* A caller is the request context: whether it carries a user, whether the
\* lookup of the user's projects succeeds, and the projects it returns.

\* a lookup that fails the request when the provider cannot be resolved
getProviderForModelStrict(store, pms, caller, modelKey) ==
    IF ~caller.user THEN [provider |-> Nil, err |-> "no_user"]
    ELSE IF ~caller.projectsOK THEN [provider |-> Nil, err |-> "project_lookup_failed"]
    ELSE LET r == GetProviderForModel(store, pms, modelKey, DefaultOrgID, caller.projectIDs)
         IN IF r.err = "ok" THEN [provider |-> r.provider, err |-> "ok"]
            ELSE [provider |-> Nil, err |-> r.err]

\* CompletionAPI.getProviderForModel: always a provider, never an error
getProviderForModel(store, pms, caller, modelKey) ==
    IF ~caller.user THEN [provider |-> Some(DefaultProvider), err |-> "ok"]
    ELSE IF ~caller.projectsOK THEN [provider |-> Some(DefaultProvider), err |-> "ok"]
    ELSE [provider |-> Some(GetProviderForModelOrDefaultResult(store, pms, modelKey,
                                DefaultOrgID, caller.projectIDs).provider),
          err |-> "ok"]

\* inferenceProvider.GetChatCompletionClient: the built-in provider uses the
\* configured client; a client for a registered provider may fail to be built
GetChatCompletionClient(provider, env) ==
    IF provider.id = DefaultProvider.id \/ env.clientOK THEN "ok" ELSE "client_failed"

\* a buffered call that is issued again after a failure
CallCompletionWithRetry(provider, env) ==
    IF GetChatCompletionClient(provider, env) # "ok"
    THEN [err |-> "client_failed", calls |-> << >>]
    ELSE IF env.outcome = "ok" THEN [err |-> "ok", calls |-> <<"buffered">>]
    ELSE [err |-> env.outcome, calls |-> <<"buffered", "buffered">>]

\* one CreateChatCompletion call; calls lists the backend calls issued
CallCompletionAndGetRestResponse(provider, env) ==
    IF GetChatCompletionClient(provider, env) # "ok"
    THEN [err |-> "client_failed", calls |-> << >>]
    ELSE [err |-> env.outcome, calls |-> <<"buffered">>]

\* the start of StreamCompletionResponse: one StreamChatCompletionToContext
\* call, which opens the backend connection or fails
StreamCompletionResponse(provider, env) ==
    IF GetChatCompletionClient(provider, env) # "ok"
    THEN [err |-> "client_failed", calls |-> << >>]
    ELSE [err |-> env.outcome, calls |-> <<"stream">>]

\* a failed call answered as a bad gateway
FailedCompletionBadGateway(call, provider) ==
    [status |-> Some(StatusBadRequest + 102), code |-> call.err, resolved |-> TRUE,
     provider |-> provider, calls |-> call.calls, streaming |-> FALSE]

\* the answer of PostCompletion when the call returned an error
FailedCompletion(call, provider) ==
    [status |-> Some(StatusBadRequest), code |-> call.err, resolved |-> TRUE,
     provider |-> provider, calls |-> call.calls, streaming |-> FALSE]

\* a handler that resolves and calls before it looks at the message list
PostCompletionCallFirst(store, pms, request, caller, env) ==
    LET resolved == getProviderForModel(store, pms, caller, request.model)
        call == IF request.stream
                THEN StreamCompletionResponse(resolved.provider[1], env)
                ELSE CallCompletionAndGetRestResponse(resolved.provider[1], env)
    IN IF ~request.bindOK
       THEN [status |-> Some(StatusBadRequest), code |-> "bind", resolved |-> FALSE,
             provider |-> Nil, calls |-> << >>, streaming |-> FALSE]
       ELSE IF request.messages = 0 \/ call.err # "ok"
       THEN [status |-> Some(StatusBadRequest),
             code |-> IF request.messages = 0 THEN "messages_empty" ELSE call.err,
             resolved |-> TRUE, provider |-> resolved.provider, calls |-> call.calls,
             streaming |-> FALSE]
       ELSE [status |-> IF request.stream THEN Nil ELSE Some(StatusOK), code |-> "ok",
             resolved |-> TRUE, provider |-> resolved.provider, calls |-> call.calls,
             streaming |-> request.stream]

\* PostCompletion up to the answer or, for a stream, the opened connection
PostCompletionResult(store, pms, request, caller, env) ==
    LET resolved == getProviderForModel(store, pms, caller, request.model)
        call == IF request.stream
                THEN StreamCompletionResponse(resolved.provider[1], env)
                ELSE CallCompletionAndGetRestResponse(resolved.provider[1], env)
    IN IF ~request.bindOK
       THEN [status |-> Some(StatusBadRequest), code |-> "bind", resolved |-> FALSE,
             provider |-> Nil, calls |-> << >>, streaming |-> FALSE]
       ELSE IF request.messages = 0
       THEN [status |-> Some(StatusBadRequest), code |-> "messages_empty",
             resolved |-> FALSE, provider |-> Nil, calls |-> << >>, streaming |-> FALSE]
       ELSE IF resolved.err # "ok"
       THEN [status |-> Some(StatusBadRequest), code |-> resolved.err, resolved |-> TRUE,
             provider |-> Nil, calls |-> << >>, streaming |-> FALSE]
       ELSE IF call.err # "ok"
       THEN FailedCompletion(call, resolved.provider)
       ELSE [status |-> IF request.stream THEN Nil ELSE Some(StatusOK), code |-> "ok",
             resolved |-> TRUE, provider |-> resolved.provider, calls |-> call.calls,
             streaming |-> request.stream]

PostCompletion(request, caller, env) ==
    /\ stream.pc # "streaming"
    /\ \E r \in {PostCompletionResult(providers, providerModels, request, caller, env)} :
          /\ lastOp' = [op |-> "PostCompletion", request |-> request, caller |-> caller,
                        outcome |-> env.outcome, status |-> r.status, code |-> r.code,
                        resolved |-> r.resolved, provider |-> r.provider,
                        calls |-> r.calls]
          /\ stream' = IF r.streaming
                       THEN [pc |-> "streaming", chunks |-> env.chunks, delivered |-> 0,
                             cancelledAt |-> Nil, conn |-> "open"]
                       ELSE NoStream
    /\ UNCHANGED <<regVars, taskVars, cacheVars>>

\* The rest of a streaming call is the chat client's relay loop, which is not
\* among the sources: each frame the backend emits is written to the caller
\* as it arrives, and the loop ends when the backend is done or the
\* caller's context is cancelled.

\* a loop that goes on relaying after the caller has cancelled
RelayChunkIgnoringCancel ==
    /\ stream.pc = "streaming"
    /\ stream.delivered < stream.chunks
    /\ stream' = [stream EXCEPT !.delivered = @ + 1]
    /\ UNCHANGED <<regVars, taskVars, cacheVars, lastOp>>

RelayChunk ==
    /\ stream.pc = "streaming"
    /\ stream.cancelledAt = Nil
    /\ stream.delivered < stream.chunks
    /\ stream' = [stream EXCEPT !.delivered = @ + 1]
    /\ UNCHANGED <<regVars, taskVars, cacheVars, lastOp>>

\* the caller disconnects: the request context is cancelled
CallerCancel ==
    /\ stream.pc = "streaming"
    /\ stream.cancelledAt = Nil
    /\ stream' = [stream EXCEPT !.cancelledAt = Some(stream.delivered)]
    /\ UNCHANGED <<regVars, taskVars, cacheVars, lastOp>>

\* the loop ends: the backend connection is closed; after a cancellation the
\* call returns an error and the handler aborts the request
StreamFinish ==
    /\ stream.pc = "streaming"
    /\ stream.cancelledAt # Nil \/ stream.delivered = stream.chunks
    /\ stream' = [stream EXCEPT !.pc = "done", !.conn = "closed"]
    /\ lastOp' = [op |-> "StreamFinish",
                  status |-> IF stream.cancelledAt # Nil THEN Some(StatusBadRequest)
                             ELSE Some(StatusOK),
                  code |-> IF stream.cancelledAt # Nil THEN "cancelled" ELSE "ok"]
    /\ UNCHANGED <<regVars, taskVars, cacheVars>>

(* ------------------- sequential use of the registry -------------------- *)

OtherOrgID == DefaultOrgID + 1

Orgs == {DefaultOrgID, OtherOrgID}

\* the one project of the model belongs to the non-default organization
Projects == {1}

\* (organization, project) pairs a registration may name; 0 is "not given"
Scopes == {<<DefaultOrgID, 0>>, <<OtherOrgID, 0>>} \cup {<<OtherOrgID, p>> : p \in Projects}

\* MODEL_PROVIDER_SECRET of a configured deployment
ModelProviderSecret == <<"s">>

\* a registration without key or metadata; secret is the MODEL_PROVIDER_SECRET
\* in force when the call is made
RegisterInput(scope, name, vendor, baseURL, active) ==
    [org |-> scope[1], project |-> scope[2], name |-> name, vendor |-> vendor,
     baseURL |-> baseURL, apiKey |-> << >>, metadata |-> << >>, active |-> active,
     secret |-> ModelProviderSecret]

\* model identifiers callers ask for; only the first is ever reported
ModelKeys == {<<"m">>, <<"n">>}

DiscoveredModels == [id : {<<"m">>}, slug : {<< >>}, raw : {"r1"}]

\* the callers whose requests are resolved
Callers == [org : Orgs, projectIDs : SUBSET Projects]

ActivePatches ==
    [name : {Nil}, baseURL : {Nil}, apiKey : {Nil}, metadata : {Nil},
     active : {Some(TRUE), Some(FALSE)}, secret : {ModelProviderSecret}]

Init ==
    /\ providers = << >>
    /\ providerModels = << >>
    /\ catalogs = << >>
    /\ lastOp = [op |-> "init"]
    /\ reg = [t \in Tasks |-> IdleTask]
    /\ ups = [t \in Tasks |-> IdleTask]
    /\ jobs = [t \in Tasks |-> IdleTask]
    /\ cache = EmptyCache
    /\ backend = Some(<<"m1">>)
    /\ stream = NoStream

Next ==
    \/ \E scope \in Scopes, active \in BOOLEAN :
           RegisterProvider(RegisterInput(scope, <<"a">>, "acme", "ok", active))
    \/ \E pid \in 1..MaxProviders, m \in DiscoveredModels : SyncProviderModels(pid, <<m>>)
    \/ \E key \in ModelKeys, caller \in Callers :
           GetProviderForModelOrDefault(key, caller.org, caller.projectIDs)

Spec == Init /\ [][Next]_vars

(* ------------------------ claims on resolution ------------------------- *)

\* provider row p has an active provider-model row for the key
Serves(p, key) ==
    \E i \in DOMAIN providerModels :
        /\ providerModels[i].provider = p.id
        /\ providerModels[i].key = key
        /\ providerModels[i].active

\* 1 project-scoped, 2 organization-scoped, 3 platform default, 4 not accessible
ScopeRank(p, org, projectIDs) ==
    IF p.org = Some(org) /\ p.project # Nil /\ p.project[1] \in projectIDs THEN 1
    ELSE IF p.org = Some(org) /\ p.project = Nil THEN 2
    ELSE IF p.org = Some(DefaultOrgID) /\ p.project = Nil THEN 3
    ELSE 4

StoreRows == {providers[i] : i \in DOMAIN providers}

Resolved == lastOp.op = "resolve"

\* C1: GetProviderForModel returns the first provider, in the order of
\* ListAccessibleProviders (project, then organization, then platform
\* default), that has an active provider-model row for the key: no accessible
\* provider of a better scope serves the key, and it fails exactly when no
\* listed provider serves it.
C1_FirstByPriority ==
    Resolved =>
        LET list == ListAccessibleProviders(providers, lastOp.org, lastOp.projectIDs)
            serving == {i \in DOMAIN list : Serves(list[i], lastOp.key)}
        IN IF serving = {} THEN lastOp.err # "ok"
           ELSE /\ lastOp.err = "ok"
                /\ \E i \in serving :
                      /\ lastOp.provider = list[i]
                      /\ \A j \in serving : i <= j
                /\ lastOp.provider \in StoreRows
                /\ \A q \in StoreRows :
                      Serves(q, lastOp.key) =>
                          ScopeRank(lastOp.provider, lastOp.org, lastOp.projectIDs)
                              <= ScopeRank(q, lastOp.org, lastOp.projectIDs)

\* scenario B: an organization-scoped provider registered first and a
\* project-scoped provider of the same organization both serve the key, and
\* the caller of that project was given the project-scoped one
C1_Witness ==
    /\ Resolved
    /\ lastOp.err = "ok"
    /\ \E p1, p2 \in StoreRows :
          /\ p1.id < p2.id
          /\ p1.org = p2.org /\ p1.project = Nil /\ p2.project # Nil
          /\ p2.project[1] \in lastOp.projectIDs
          /\ Serves(p1, lastOp.key) /\ Serves(p2, lastOp.key)
          /\ lastOp.provider = p2

\* C2: GetProviderForModelOrDefault sets the fallback flag, and returns the
\* built-in default provider, exactly when no provider accessible to the
\* caller has an active provider-model row for the key (in particular when
\* no provider is registered); otherwise the flag is clear and the provider
\* returned is a registered one that serves the key.
C2_FallbackFlag ==
    Resolved =>
        LET genuine == \E q \in StoreRows :
                           /\ ScopeRank(q, lastOp.org, lastOp.projectIDs) < 4
                           /\ Serves(q, lastOp.key)
        IN /\ lastOp.usedDefault <=> ~genuine
           /\ lastOp.usedDefault => lastOp.provider = DefaultProvider
           /\ ~lastOp.usedDefault =>
                 lastOp.provider \in StoreRows /\ Serves(lastOp.provider, lastOp.key)
           /\ providers = << >> => lastOp.usedDefault

\* the key is served, but only by a provider the caller has no access to,
\* and the default provider was returned with the flag set
C2_Witness ==
    /\ Resolved
    /\ lastOp.usedDefault
    /\ lastOp.provider = DefaultProvider
    /\ \E q \in StoreRows :
          Serves(q, lastOp.key) /\ ScopeRank(q, lastOp.org, lastOp.projectIDs) = 4

(* ----------------------- sequential registration ----------------------- *)

\* registrations that pass validation, and some that do not; <<0, 0>> names
\* no organization and no project
RegisterInputs ==
    {RegisterInput(scope, <<"a">>, vendor, "ok", active) :
         scope \in Scopes \cup {<<0, 0>>}, vendor \in {"openai", "acme"}, active \in BOOLEAN}
    \cup {RegisterInput(scope, bad[1], vendor, bad[2], TRUE) :
             scope \in Scopes, vendor \in {"openai", "acme"},
             bad \in {<<<<" ">>, "ok">>, <<<<"a">>, "">>, <<<<"a">>, "malformed">>}}

NextRegister ==
    \/ \E input \in RegisterInputs : RegisterProvider(input)
    \/ \E pid \in 1..MaxProviders, patch \in ActivePatches : UpdateProvider(pid, patch)

SpecRegister == Init /\ [][NextRegister]_vars

\* a row of the store has the kind, organization and project scope that the
\* registration input asks for
SameKindAndScope(p, input) ==
    /\ p.kind = providerKindFromVendor(input.vendor)
    /\ p.org = Some(IF input.org = 0 THEN DefaultOrgID ELSE input.org)
    /\ p.project = IF input.project = 0 THEN Nil ELSE Some(input.project)

\* C3: a registration of a kind other than custom fails, and leaves the store
\* alone, whenever a provider of the same kind, organization and project
\* scope exists (active or not); the error is the conflict error whenever the
\* input passes validation.  A registration of kind custom never gets the
\* conflict error and succeeds whenever its input passes validation.
C3_KindConflict ==
    [][lastOp'.op = "register" =>
          LET input == lastOp'.input
              kind == providerKindFromVendor(input.vendor)
              exists == \E p \in StoreRows : SameKindAndScope(p, input)
          IN /\ (kind # ProviderCustom /\ exists) =>
                    /\ lastOp'.err # "ok"
                    /\ providers' = providers
                    /\ RegisterValidate(input) = "ok" => lastOp'.err = "kind_exists"
             /\ kind = ProviderCustom =>
                    /\ lastOp'.err # "kind_exists"
                    /\ RegisterValidate(input) = "ok" => lastOp'.err = "ok"]_vars

\* a registration was refused with the conflict error although the only
\* provider of that kind and scope had been deactivated
C3_Witness ==
    /\ lastOp.op = "register"
    /\ lastOp.err = "kind_exists"
    /\ \E p \in StoreRows : SameKindAndScope(p, lastOp.input) /\ ~p.active

(* ----------------------- concurrent registration ----------------------- *)

\* Each request task runs RegisterProvider as its store calls, one step per
\* call: the count of the kind check, each lookup of generateUniqueSlug, and
\* the create.  Nothing in RegisterProvider spans these calls (no
\* transaction, no lock); the providers table has unique indexes on the slug
\* and the public id only.

\* providerRepo.Create under the unique index on the slug
ProviderCreateUnique(store, p) ==
    IF ProviderCount(store, [NoProviderFilter EXCEPT !.slug = Some(p.slug)]) > 0
    THEN [err |-> "create_failed", store |-> store]
    ELSE [err |-> "ok", store |-> ProviderCreate(store, p)]

\* validation and the kind check (part_007 lines 72-112)
RegBegin(t, input) ==
    /\ reg[t].pc = "idle"
    /\ LET kind == providerKindFromVendor(input.vendor)
           v == RegisterValidate(input)
           candidate == LET c == slugify(slugCandidate(kind, TrimSpace(input.name)))
                        IN IF c = << >> THEN <<"provider">> ELSE c
       IN reg' = [reg EXCEPT ![t] =
              IF v # "ok" THEN [pc |-> "done", input |-> input, err |-> v]
              ELSE IF ~KindCheckPasses(providers, kind, RegisterOrg(input), RegisterProject(input))
              THEN [pc |-> "done", input |-> input, err |-> "kind_exists"]
              ELSE [pc |-> "slug", input |-> input, candidate |-> candidate,
                    slug |-> candidate, counter |-> 1]]
    /\ UNCHANGED <<regVars, lastOp, ups, jobs, cacheVars, stream>>

\* one iteration of the loop of generateUniqueSlug
RegSlugLookup(t) ==
    /\ reg[t].pc = "slug"
    /\ reg' = [reg EXCEPT ![t] =
           IF ProviderCount(providers, [NoProviderFilter EXCEPT !.slug = Some(reg[t].slug)]) = 0
           THEN [@ EXCEPT !.pc = "create"]
           ELSE [@ EXCEPT !.counter = @ + 1,
                          !.slug = reg[t].candidate \o <<"-">> \o Digits(reg[t].counter + 1)]]
    /\ UNCHANGED <<regVars, lastOp, ups, jobs, cacheVars, stream>>

\* the create and the return (part_007 lines 141-163)
RegCreate(t) ==
    /\ reg[t].pc = "create"
    /\ LET r == ProviderCreateUnique(providers, NewProvider(reg[t].input, reg[t].slug,
                                                              GenerateSecureID(providers)))
       IN /\ providers' = r.store
          /\ reg' = [reg EXCEPT ![t] = [pc |-> "done", input |-> reg[t].input, err |-> r.err]]
    /\ UNCHANGED <<providerModels, catalogs, lastOp, ups, jobs, cacheVars, stream>>

ConcurrentRegisterInputs ==
    {RegisterInput(scope, name, "openai", "ok", TRUE) :
         scope \in {<<OtherOrgID, 0>>, <<OtherOrgID, 1>>}, name \in {<<"a">>, <<"b">>}}

NextRegisterConc ==
    \/ \E t \in Tasks, input \in ConcurrentRegisterInputs : RegBegin(t, input)
    \/ \E t \in Tasks : RegSlugLookup(t)
    \/ \E t \in Tasks : RegCreate(t)

SpecRegisterConc == Init /\ [][NextRegisterConc]_vars

\* C4: of the concurrent registrations of one non-custom kind, organization
\* and project scope at most one succeeds, and the store never holds two rows
\* of that kind and scope.
C4_AtMostOneOfAKind ==
    /\ \A t1, t2 \in Tasks :
          (/\ t1 # t2
           /\ reg[t1].pc = "done" /\ reg[t2].pc = "done"
           /\ reg[t1].err = "ok" /\ reg[t2].err = "ok"
           /\ providerKindFromVendor(reg[t1].input.vendor) # ProviderCustom
           /\ reg[t1].input.vendor = reg[t2].input.vendor
           /\ reg[t1].input.org = reg[t2].input.org
           /\ reg[t1].input.project = reg[t2].input.project) => FALSE
    /\ \A i, j \in DOMAIN providers :
          (/\ i # j
           /\ providers[i].kind # ProviderCustom
           /\ providers[i].kind = providers[j].kind
           /\ providers[i].org = providers[j].org
           /\ providers[i].project = providers[j].project) => FALSE

(* --------------------- sequential catalog synchronisation -------------- *)

\* Enrichment of a catalog entry by the catalog service, which is outside
\* this model's sources: the entry's status becomes updated.
EnrichCatalog(cid) ==
    /\ cid \in DOMAIN catalogs
    /\ catalogs[cid].status # ModelCatalogStatusUpdated
    /\ catalogs' = [catalogs EXCEPT ![cid].status = ModelCatalogStatusUpdated]
    /\ lastOp' = [op |-> "enrich", catalog |-> cid]
    /\ UNCHANGED <<providers, providerModels, taskVars, cacheVars, stream>>

\* providers of an init-level kind and of the filled-level kind
CatalogRegisterInputs ==
    {RegisterInput(<<OtherOrgID, 0>>, <<"a">>, vendor, "ok", TRUE) :
         vendor \in {"openai", "openrouter"}}

CatalogModels ==
    {[id |-> <<"m">>, slug |-> << >>, raw |-> "r1"],
     [id |-> <<"m">>, slug |-> << >>, raw |-> "r2"],
     [id |-> <<"n">>, slug |-> << >>, raw |-> "r1"]}

\* the discovered lists: one model, or a model "m" followed by a model "n"
CatalogBatches ==
    {<<m>> : m \in CatalogModels}
    \cup {<<m, n>> : m \in {x \in CatalogModels : x.id = <<"m">>},
                     n \in {x \in CatalogModels : x.id = <<"n">>}}

NextCatalog ==
    \/ \E input \in CatalogRegisterInputs : RegisterProvider(input)
    \/ \E pid \in 1..MaxProviders, batch \in CatalogBatches : SyncProviderModels(pid, batch)
    \/ \E cid \in 1..Cardinality(CatalogModels) : EnrichCatalog(cid)

SpecCatalog == Init /\ [][NextCatalog]_vars

StatusRank(status) ==
    CASE status = ModelCatalogStatusInit -> 1
      [] status = ModelCatalogStatusFilled -> 2
      [] status = ModelCatalogStatusUpdated -> 3

Enriched(c) ==
    c.status = ModelCatalogStatusFilled \/ c.status = ModelCatalogStatusUpdated

\* C5: no step moves the status of a catalog entry backward in the order
\* init, filled, updated; entries are never removed or renamed.
C5_StatusMonotonic ==
    [][\A i \in DOMAIN catalogs :
          /\ i \in DOMAIN catalogs'
          /\ catalogs'[i].publicID = catalogs[i].publicID
          /\ StatusRank(catalogs'[i].status) >= StatusRank(catalogs[i].status)]_vars

\* a provider of an init-level kind has synced a model whose entry was
\* already filled or updated, and the entry still is
C5_Witness ==
    /\ lastOp.op = "sync"
    /\ lastOp.err = "ok"
    /\ providers[lastOp.provider].kind # ProviderOpenRouter
    /\ \E k \in DOMAIN lastOp.results :
          /\ Enriched(lastOp.results[k].catalog)
          /\ Enriched(catalogs[lastOp.results[k].catalog.id])

\* C6: a sync writes a catalog entry only if it is new or its status is init.
\* An entry that is filled or updated when the sync starts is left exactly as
\* it is (status and data), is not written, and is the entry the sync returns
\* for every model of the list that maps to it.
C6_EnrichedNotWritten ==
    [][lastOp'.op = "sync" =>
          /\ \A id \in lastOp'.wrote :
                id \in DOMAIN catalogs => catalogs[id].status = ModelCatalogStatusInit
          /\ \A i \in DOMAIN catalogs :
                Enriched(catalogs[i]) =>
                    /\ catalogs'[i] = catalogs[i]
                    /\ i \notin lastOp'.wrote
                    /\ \A k \in DOMAIN lastOp'.results :
                          catalogPublicID(lastOp'.models[k]) = catalogs[i].publicID =>
                              lastOp'.results[k].catalog = catalogs[i]]_vars

\* a sync carrying init-level data different from the entry's met a filled
\* or updated entry: nothing was written and the entry came back unchanged
C6_Witness ==
    /\ lastOp.op = "sync"
    /\ lastOp.err = "ok"
    /\ providers[lastOp.provider].kind # ProviderOpenRouter
    /\ lastOp.wrote = {}
    /\ \E k \in DOMAIN lastOp.results :
          /\ Enriched(lastOp.results[k].catalog)
          /\ lastOp.results[k].catalog.data # lastOp.models[k].raw
          /\ catalogs[lastOp.results[k].catalog.id] = lastOp.results[k].catalog

(* --------------------- concurrent catalog synchronisation -------------- *)

\* The data a backend reports for model "m": each vendor reports its own.
ReportedModel(kind) ==
    [id |-> <<"m">>, slug |-> << >>,
     raw |-> IF kind = ProviderOpenRouter THEN "r2" ELSE "r1"]

\* modelCatalogRepo.Create under a unique index on the public id
CatalogCreateUnique(cats, c) ==
    IF CatalogFindByPublicID(cats, c.publicID) # Nil
    THEN [err |-> "create_failed", cats |-> cats]
    ELSE [err |-> "ok", cats |-> Append(cats, CatalogCreated(cats, c))]

\* SyncProviderModels is entered with the caller's provider and the list
\* its backend reported
SyncBegin(t, pid) ==
    /\ ups[t].pc = "idle"
    /\ pid \in DOMAIN providers
    /\ ups' = [ups EXCEPT ![t] = [pc |-> "find", provider |-> providers[pid],
                                  model |-> ReportedModel(providers[pid].kind)]]
    /\ UNCHANGED <<regVars, lastOp, reg, jobs, cacheVars, stream>>

\* upsertCatalog: the lookup by public id
UpsFind(t) ==
    /\ ups[t].pc = "find"
    /\ ups' = [ups EXCEPT ![t] =
                  [pc |-> "write", provider |-> ups[t].provider, model |-> ups[t].model,
                   existing |-> CatalogFindByPublicID(catalogs, catalogPublicID(ups[t].model))]]
    /\ UNCHANGED <<regVars, lastOp, reg, jobs, cacheVars, stream>>

\* upsertCatalog: the decision on the row found earlier, and the write
UpsWrite(t) ==
    /\ ups[t].pc = "write"
    /\ LET u == ups[t]
           r == upsertCatalogWith(catalogs, u.existing, u.provider.kind, u.model)
           created == CatalogCreateUnique(catalogs, r.catalog)
       IN IF u.existing = Nil /\ created.err # "ok"
          THEN /\ ups' = [ups EXCEPT ![t] = IdleTask]
               /\ UNCHANGED catalogs
          ELSE /\ catalogs' = r.cats
               /\ ups' = [ups EXCEPT ![t] =
                             [pc |-> "link", provider |-> u.provider, model |-> u.model,
                              catalog |-> r.catalog]]
    /\ UNCHANGED <<providers, providerModels, lastOp, reg, jobs, cacheVars, stream>>

\* upsertProviderModel, then the provider's last-synced update
UpsFinish(t) ==
    /\ ups[t].pc = "link"
    /\ LET u == ups[t]
           up == upsertProviderModel(providerModels, u.provider, u.catalog, u.model)
       IN /\ providerModels' = up.pms
          /\ providers' = IF up.err = "ok"
                          THEN ProviderUpdate(providers, [u.provider EXCEPT !.synced = TRUE])
                          ELSE providers
    /\ ups' = [ups EXCEPT ![t] = IdleTask]
    /\ UNCHANGED <<catalogs, lastOp, reg, jobs, cacheVars, stream>>

NextCatalogConc ==
    \/ \E input \in CatalogRegisterInputs : RegisterProvider(input)
    \/ \E t \in Tasks, pid \in 1..MaxProviders : SyncBegin(t, pid)
    \/ \E t \in Tasks : UpsFind(t)
    \/ \E t \in Tasks : UpsWrite(t)
    \/ \E t \in Tasks : UpsFinish(t)

SpecCatalogConc == Init /\ [][NextCatalogConc]_vars

\* C7: with the find and the write of concurrent syncs interleaved, an entry
\* that is filled does not go back to init and keeps its data.
C7_ConcurrentNoRegression ==
    [][\A i \in DOMAIN catalogs :
          catalogs[i].status = ModelCatalogStatusFilled =>
              /\ catalogs'[i].status # ModelCatalogStatusInit
              /\ catalogs'[i].data = catalogs[i].data]_vars

(* ------------------------- use of the model cache ---------------------- *)

ModelIDs == {"m1", "m2"}

\* the model lists handed to SetModels, repeated ids included
ModelLists == UNION {[1..n -> ModelIDs] : n \in 0..MaxModels}

\* the configured backend and another backend name
ServiceNames == {serviceBaseURL, <<"o">>}

BlankName == <<" ">>

BackendStates == {Nil} \cup {Some(l) : l \in {<< >>, <<"m1">>, <<"m1", "m2">>}}

NextCache ==
    \/ \E name \in ServiceNames, models \in ModelLists : SetModels(name, models)
    \/ SetModels(BlankName, <<"m1">>)
    \/ \E name \in ServiceNames \cup {BlankName} : RemoveServiceModels(name)
    \/ ListModels
    \/ GetModelToEndpoints
    \/ CheckInferenceModels
    \/ \E b \in BackendStates : BackendChange(b)

SpecCache == Init /\ [][NextCache]_vars

\* the id set cached for a backend name, or Nil when nothing is cached for it
CachedIDSet(c, serviceName) ==
    IF sanitizeKeyPart(serviceName) \in DOMAIN c.endpointModels
    THEN Some(Range(UnmarshalList(c.endpointModels[sanitizeKeyPart(serviceName)])))
    ELSE Nil

\* C8: a SetModels call that directly follows a successful SetModels call for
\* the same backend with the same set of model ids performs no cache write
\* and no cache delete.
C8_SetModelsIdempotent ==
    [][(/\ lastOp.op = "SetModels"
        /\ lastOp.err = "ok"
        /\ lastOp'.op = "SetModels"
        /\ lastOp'.name = lastOp.name
        /\ Range(lastOp'.models) = Range(lastOp.models))
       => (lastOp'.writes = 0 /\ cache' = cache)]_vars

\* C9: whenever the new id set differs from the set cached for the backend,
\* or nothing is cached for it, SetModels clears the aggregate entry, every
\* per-backend entry and the reverse map, and afterwards the only per-backend
\* entry is this backend's with exactly the new ids, the aggregate is exactly
\* the new list and the keys of the reverse map are exactly the new ids.
C9_SetModelsRewritesOnChange ==
    [][(/\ lastOp'.op = "SetModels"
        /\ TrimSpace(lastOp'.name) # << >>
        /\ CachedIDSet(cache, lastOp'.name) # Some(Range(lastOp'.models)))
       => (/\ lastOp'.cleared
           /\ DOMAIN cache'.endpointModels = {sanitizeKeyPart(lastOp'.name)}
           /\ CachedIDSet(cache', lastOp'.name) = Some(Range(lastOp'.models))
           /\ cache'.models = Some(JSONList(lastOp'.models))
           /\ cache'.modelEndpoints # Nil
           /\ DOMAIN cache'.modelEndpoints[1][2] = Range(lastOp'.models))]_vars

\* C10: in the map GetModelToEndpoints returns directly after
\* RemoveServiceModels(b), b is in the backend list of no model.
C10_RemovedBackendNotReturned ==
    [][(/\ lastOp.op = "RemoveServiceModels"
        /\ lastOp.err = "ok"
        /\ lastOp'.op = "GetModelToEndpoints")
       => \A id \in DOMAIN lastOp'.modelToEndpoints :
              lastOp.name \notin Range(lastOp'.modelToEndpoints[id])]_vars

\* C11: RemoveServiceModels for a non-blank backend name whose per-backend
\* entry is absent changes no cache entry and returns success; hence a removal
\* that directly follows a successful removal of the same backend leaves the
\* cache as the first left it.
C11_RemoveIdempotent ==
    [][lastOp'.op = "RemoveServiceModels" =>
          /\ (/\ TrimSpace(lastOp'.name) # << >>
              /\ CachedIDSet(cache, lastOp'.name) = Nil)
             => (cache' = cache /\ lastOp'.err = "ok" /\ lastOp'.writes = 0)
          /\ (/\ lastOp.op = "RemoveServiceModels"
              /\ lastOp.err = "ok"
              /\ lastOp.name = lastOp'.name)
             => (cache' = cache /\ lastOp'.err = "ok")]_vars

\* the configured backend was removed again after an earlier removal had
\* emptied the aggregate list: nothing was written
C11_Witness ==
    /\ lastOp.op = "RemoveServiceModels"
    /\ lastOp.name = serviceBaseURL
    /\ lastOp.err = "ok"
    /\ lastOp.writes = 0
    /\ CachedIDSet(cache, serviceBaseURL) = Nil
    /\ cache.models = Some(JSONNull)

(* --------------------------- use of the relay -------------------------- *)

\* registrations in the default organization, which is the one the relay
\* resolves in: organization level and project 1
RelayRegisterInputs ==
    {RegisterInput(<<DefaultOrgID, project>>, <<"a">>, "acme", "ok", TRUE) :
         project \in {0} \cup Projects}

Request(messages, model, isStream) ==
    [bindOK |-> TRUE, messages |-> messages, model |-> model, stream |-> isStream]

RelayCallers ==
    {[user |-> FALSE, projectsOK |-> TRUE, projectIDs |-> {}],
     [user |-> TRUE, projectsOK |-> FALSE, projectIDs |-> {}]}
    \cup {[user |-> TRUE, projectsOK |-> TRUE, projectIDs |-> ids] : ids \in SUBSET Projects}

BackendOutcomes == {"ok", "transport", "non2xx"}

Env(outcome, clientOK, chunks) ==
    [outcome |-> outcome, clientOK |-> clientOK, chunks |-> chunks]

NextRelay ==
    \/ \E input \in RelayRegisterInputs : RegisterProvider(input)
    \/ \E pid \in 1..MaxProviders, m \in DiscoveredModels : SyncProviderModels(pid, <<m>>)
    \/ \E model \in ModelKeys, isStream \in BOOLEAN, caller \in RelayCallers,
          outcome \in BackendOutcomes, chunks \in 1..MaxChunks :
           /\ (isStream /\ outcome = "ok") \/ chunks = 1
           /\ PostCompletion(Request(1, model, isStream), caller, Env(outcome, TRUE, chunks))
    \/ \E isStream \in BOOLEAN, caller \in RelayCallers :
           \/ PostCompletion(Request(0, <<"m">>, isStream), caller, Env("ok", TRUE, 1))
           \/ PostCompletion(Request(1, <<"m">>, isStream), caller, Env("ok", FALSE, 1))
    \/ \E caller \in RelayCallers :
           PostCompletion([Request(1, <<"m">>, FALSE) EXCEPT !.bindOK = FALSE],
                          caller, Env("ok", TRUE, 1))
    \/ RelayChunk
    \/ CallerCancel
    \/ StreamFinish

SpecRelay == Init /\ [][NextRelay]_vars

\* the last step was a completion request whose body was read
Completed == lastOp.op = "PostCompletion" /\ lastOp.request.bindOK

\* C12: a completion request with an empty message list is answered with the
\* validation error; no provider was resolved and no backend call was made.
C12_EmptyMessagesRejected ==
    (Completed /\ lastOp.request.messages = 0)
    => /\ lastOp.status = Some(StatusBadRequest)
       /\ lastOp.code = "messages_empty"
       /\ ~lastOp.resolved
       /\ lastOp.calls = << >>

\* an empty request for a model that a registered provider serves to the caller
C12_Witness ==
    /\ Completed
    /\ lastOp.request.messages = 0
    /\ lastOp.caller.user /\ lastOp.caller.projectsOK
    /\ GetProviderForModel(providers, providerModels, lastOp.request.model,
                           DefaultOrgID, lastOp.caller.projectIDs).err = "ok"
    /\ lastOp.calls = << >>

\* the causes for which no registered provider is resolved for a request
ResolutionFails(store, pms, caller, model) ==
    \/ ~caller.user
    \/ ~caller.projectsOK
    \/ GetProviderForModel(store, pms, model, DefaultOrgID, caller.projectIDs).err # "ok"

\* C13: a completion request (with messages) for which provider resolution
\* fails, whatever the cause, goes on with the default provider: exactly one
\* backend call is issued, and the request succeeds when that call does.
C13_ResolutionFailureFallsBack ==
    [][(/\ lastOp'.op = "PostCompletion"
        /\ lastOp'.request.bindOK
        /\ lastOp'.request.messages > 0
        /\ ResolutionFails(providers, providerModels, lastOp'.caller, lastOp'.request.model))
       => (/\ lastOp'.provider = Some(DefaultProvider)
           /\ Len(lastOp'.calls) = 1
           /\ lastOp'.code = lastOp'.outcome
           /\ lastOp'.outcome = "ok" =>
                  lastOp'.status = IF lastOp'.request.stream THEN Nil
                                   ELSE Some(StatusOK))]_vars

\* the project lookup failed for a request whose model is synced for a
\* registered provider; the default provider answered it
C13_Witness ==
    /\ Completed
    /\ lastOp.request.messages > 0
    /\ lastOp.caller.user /\ ~lastOp.caller.projectsOK
    /\ providerModels # << >>
    /\ lastOp.provider = Some(DefaultProvider)
    /\ lastOp.calls = <<"buffered">>
    /\ lastOp.status = Some(StatusOK)

\* C14: a completion request issues at most one backend call, buffered or
\* streaming as the stream flag says, also when the call fails.
C14_AtMostOneBackendCall ==
    Completed
    => /\ Len(lastOp.calls) <= 1
       /\ lastOp.calls # << >> =>
              lastOp.calls[1] = IF lastOp.request.stream THEN "stream" ELSE "buffered"

\* a buffered call failed and was the only one
C14_Witness ==
    /\ Completed
    /\ ~lastOp.request.stream
    /\ lastOp.outcome # "ok"
    /\ lastOp.calls = <<"buffered">>
    /\ lastOp.status = Some(StatusBadRequest)

\* a completion request whose backend call failed
BackendCallFailed ==
    Completed /\ lastOp.calls # << >> /\ lastOp.outcome # "ok"

\* C15 as claimed: a failed backend call is answered with a 5xx status.
C15_BackendFailureIs5xx ==
    BackendCallFailed => (lastOp.status # Nil /\ lastOp.status[1] >= 500)

\* C15: a failed backend call (transport failure or non-2xx) is answered with
\* status 400 Bad Request and the error of the call.
C15_BackendFailureIs400 ==
    BackendCallFailed
    => (lastOp.status = Some(StatusBadRequest) /\ lastOp.code = lastOp.outcome)

\* a registered provider's backend answered a non-2xx status
C15_Witness ==
    /\ BackendCallFailed
    /\ lastOp.outcome = "non2xx"
    /\ lastOp.provider # Nil
    /\ lastOp.provider[1].id # DefaultProvider.id
    /\ lastOp.status = Some(StatusBadRequest)

\* C16: once the caller has cancelled a stream after k delivered frames, the
\* only step of the stream is the one that closes the backend connection, and
\* the stream ends with exactly k frames delivered.
C16_NoChunkAfterCancel ==
    [][(stream.pc = "streaming" /\ stream.cancelledAt # Nil)
       => \/ stream' = stream
          \/ /\ stream'.pc = "done"
             /\ stream'.conn = "closed"
             /\ stream'.delivered = stream.cancelledAt[1]]_vars

\* the caller cancelled after 2 of 3 frames and the stream has ended
C16_Witness ==
    /\ stream.pc = "done"
    /\ stream.chunks = 3
    /\ stream.cancelledAt = Some(2)
    /\ stream.delivered = 2
    /\ stream.conn = "closed"

(* ------------------------- sequential slug use ------------------------- *)

\* names that collide after slugify, and one that equals a suffixed slug
SlugNames == {<<"a">>, <<"A">>, <<"a", " ">>, <<"a", "-", "2">>, <<"-">>}

SlugRegisterInputs ==
    {RegisterInput(<<DefaultOrgID, 0>>, name, vendor, "ok", TRUE) :
         name \in SlugNames, vendor \in {"acme", "openai"}}

NextSlug ==
    \/ \E input \in SlugRegisterInputs : RegisterProvider(input)
    \/ \E pid \in 1..MaxProviders, patch \in ActivePatches : UpdateProvider(pid, patch)

SpecSlug == Init /\ [][NextSlug]_vars

SlugsDistinct(store) ==
    \A i, j \in DOMAIN store : i # j => store[i].slug # store[j].slug

\* C17: a successful sequential registration stores a slug that no provider
\* of the store held before it, and the slugs of the store stay pairwise
\* distinct.
C17_SequentialSlugsDistinct ==
    [][(lastOp'.op = "register" /\ lastOp'.err = "ok" /\ Len(providers') = Len(providers) + 1)
       => (/\ \A i \in DOMAIN providers :
                 providers[i].slug # providers'[Len(providers')].slug
           /\ SlugsDistinct(providers'))]_vars

\* a second registration under a name with the same slug got the suffix "-2"
C17_Witness ==
    /\ Len(providers) = 2
    /\ providers[1].slug = <<"custom", "-", "a">>
    /\ providers[2].name = <<"A">>
    /\ providers[2].slug = <<"custom", "-", "a", "-", "2">>

(* ------------------- concurrent registrations, one name ---------------- *)

\* custom registrations under one name, which is exempt from the kind check
SameNameRegisterInputs ==
    {RegisterInput(scope, <<"a">>, "acme", "ok", active) :
         scope \in {<<DefaultOrgID, 0>>, <<OtherOrgID, 0>>}, active \in BOOLEAN}

NextSlugConc ==
    \/ \E t \in Tasks, input \in SameNameRegisterInputs : RegBegin(t, input)
    \/ \E t \in Tasks : RegSlugLookup(t)
    \/ \E t \in Tasks : RegCreate(t)

SpecSlugConc == Init /\ [][NextSlugConc]_vars

\* C18: when the concurrent registrations of kind custom under one name have
\* all returned, every one of them has succeeded and the store holds one row
\* for each, with pairwise distinct slugs.
C18_AllConcurrentSucceed ==
    (\A t \in Tasks :
        /\ reg[t].pc = "done"
        /\ providerKindFromVendor(reg[t].input.vendor) = ProviderCustom
        /\ \A u \in Tasks : reg[u].pc = "done" => reg[u].input.name = reg[t].input.name)
    => /\ \A t \in Tasks : reg[t].err = "ok"
       /\ Len(providers) = Cardinality(Tasks)
       /\ SlugsDistinct(providers)

(* --------------------------- provider listing -------------------------- *)

\* a call of ListAccessibleProviders for a caller
ListProviders(organizationID, projectIDs) ==
    /\ lastOp' = [op |-> "list", org |-> organizationID, projectIDs |-> projectIDs,
                  result |-> ListAccessibleProviders(providers, organizationID, projectIDs)]
    /\ UNCHANGED <<regVars, taskVars, cacheVars, stream>>

\* every scope of the model, and project 1 in the default organization too
ListScopes == Scopes \cup {<<DefaultOrgID, p>> : p \in Projects}

NextList ==
    \/ \E scope \in ListScopes :
           RegisterProvider(RegisterInput(scope, <<"a">>, "acme", "ok", TRUE))
    \/ \E caller \in Callers : ListProviders(caller.org, caller.projectIDs)

SpecList == Init /\ [][NextList]_vars

\* C19: in the list ListAccessibleProviders returns, the providers of the
\* caller's projects come first, then the organization-level providers of the
\* caller's organization, then those of the default organization; no provider
\* is listed twice, and the list holds exactly the store's providers of these
\* three scopes.
C19_ListOrderedAndUnique ==
    [][lastOp'.op = "list" =>
          LET list == lastOp'.result
              rank(p) == ScopeRank(p, lastOp'.org, lastOp'.projectIDs)
          IN /\ \A i, j \in DOMAIN list : i < j => rank(list[i]) <= rank(list[j])
             /\ \A i, j \in DOMAIN list : i # j => list[i].id # list[j].id
             /\ {list[i] : i \in DOMAIN list} = {p \in StoreRows : rank(p) < 4}]_vars

\* a project provider registered after a default-organization provider is
\* listed before it
C19_Witness ==
    /\ lastOp.op = "list"
    /\ Len(lastOp.result) = 2
    /\ lastOp.result[1].id = 2
    /\ lastOp.result[1].project # Nil
    /\ lastOp.result[2].id = 1
    /\ lastOp.result[2].org = Some(DefaultOrgID)
    /\ lastOp.org = OtherOrgID


(* ------------------------- provider model rows ------------------------- *)

\* backends report a model id as it stands in their answer: "m", and the
\* same id followed by a space
SyncModels ==
    {[id |-> id, slug |-> << >>, raw |-> raw] :
         id \in {<<"m">>, <<"m", " ">>}, raw \in {"r1", "r2"}}

SyncBatches == {<<m>> : m \in SyncModels}

\* a sync while the provider model store has room for its rows
SyncWithinStore(pid, batch) ==
    /\ Len(providerModels) + Len(batch) <= MaxRows
    /\ SyncProviderModels(pid, batch)

NextSync ==
    \/ \E vendor \in {"openai", "openrouter"} :
           RegisterProvider(RegisterInput(<<OtherOrgID, 0>>, <<"a">>, vendor, "ok", TRUE))
    \/ \E pid \in 1..MaxProviders, batch \in SyncBatches : SyncWithinStore(pid, batch)

SpecSync == Init /\ [][NextSync]_vars

OneRowPerKey(pms) ==
    \A i, j \in DOMAIN pms :
        pms[i].provider = pms[j].provider /\ pms[i].key = pms[j].key => i = j

\* C20: after any sequence of SyncProviderModels calls the store holds at
\* most one ProviderModel row per (provider, model key), and a successful sync
\* followed by a sync of the same list for the same provider adds no row.
C20_UpsertIdempotent ==
    /\ []OneRowPerKey(providerModels)
    /\ [][(/\ lastOp.op = "sync" /\ lastOp.err = "ok"
           /\ lastOp'.op = "sync"
           /\ lastOp'.provider = lastOp.provider
           /\ lastOp'.models = lastOp.models)
          => Len(providerModels') = Len(providerModels)]_vars


(* ----------------------- convergence of the catalog -------------------- *)

\* the models two backends report: "A" without a slug, and "b" with the
\* canonical slug "a" or without one
ConvergeModels ==
    {[id |-> <<"A">>, slug |-> << >>, raw |-> "r1"],
     [id |-> <<"b">>, slug |-> <<"a">>, raw |-> "r1"],
     [id |-> <<"b">>, slug |-> << >>, raw |-> "r1"]}

ConvergeBatches ==
    {<<m>> : m \in ConvergeModels}
    \cup {<<m, n>> : m \in {x \in ConvergeModels : x.id = <<"A">>},
                     n \in {x \in ConvergeModels : x.id = <<"b">>}}

NextConverge ==
    \/ \E vendor \in {"openai", "openrouter"} :
           RegisterProvider(RegisterInput(<<OtherOrgID, 0>>, <<"a">>, vendor, "ok", TRUE))
    \/ \E pid \in 1..MaxProviders, batch \in ConvergeBatches : SyncProviderModels(pid, batch)

SpecConverge == Init /\ [][NextConverge]_vars

OneRowPerPublicID(cats) ==
    \A i, j \in DOMAIN cats : cats[i].publicID = cats[j].publicID => i = j

\* the catalog link of the row that a successful sync returned for its i-th model
LinkOf(op, i) == op.results[i].pm.catalog

\* C21: the catalog never holds two rows with one public id; the row a sync
\* links a model to is the catalog row of the model's public id; and when two
\* different providers sync one after the other, models with the same
\* canonical slug (or the same id when no slug is given) are linked to the
\* same catalog row, in the answers and in the stored provider-model rows.
C21_CatalogConverges ==
    /\ []OneRowPerPublicID(catalogs)
    /\ [][(lastOp'.op = "sync" /\ lastOp'.err = "ok")
          => \A i \in DOMAIN lastOp'.models :
                 /\ LinkOf(lastOp', i) # Nil
                 /\ LinkOf(lastOp', i)[1] \in DOMAIN catalogs'
                 /\ catalogs'[LinkOf(lastOp', i)[1]].publicID
                        = catalogPublicID(lastOp'.models[i])
                 /\ providerModels'[lastOp'.results[i].pm.id].catalog = LinkOf(lastOp', i)]_vars
    /\ [][(/\ lastOp.op = "sync" /\ lastOp.err = "ok"
           /\ lastOp'.op = "sync" /\ lastOp'.err = "ok"
           /\ lastOp'.provider # lastOp.provider)
          => \A i \in DOMAIN lastOp.models, j \in DOMAIN lastOp'.models :
                 catalogPublicID(lastOp.models[i]) = catalogPublicID(lastOp'.models[j])
                 => /\ LinkOf(lastOp, i) = LinkOf(lastOp', j)
                    /\ providerModels'[lastOp.results[i].pm.id].catalog
                           = providerModels'[lastOp'.results[j].pm.id].catalog]_vars

\* provider 1 has reported "b" with slug "a", provider 2 then reports "A"
\* without a slug, and both rows are linked to the one catalog row
C21_Witness ==
    /\ lastOp.op = "sync" /\ lastOp.err = "ok" /\ lastOp.provider = 2
    /\ lastOp.models = <<[id |-> <<"A">>, slug |-> << >>, raw |-> "r1"]>>
    /\ Len(catalogs) = 1
    /\ \E i, j \in DOMAIN providerModels :
           /\ providerModels[i].provider = 1 /\ providerModels[i].key = <<"b">>
           /\ providerModels[j].provider = 2 /\ providerModels[j].key = <<"A">>
           /\ providerModels[i].catalog = providerModels[j].catalog


(* --------------------- the active flag of model rows ------------------- *)

NextMirror ==
    \/ \E active \in BOOLEAN :
           RegisterProvider(RegisterInput(<<OtherOrgID, 0>>, <<"a">>, "acme", "ok", active))
    \/ \E pid \in 1..MaxProviders, m \in DiscoveredModels : SyncProviderModels(pid, <<m>>)
    \/ \E pid \in 1..MaxProviders, patch \in ActivePatches : UpdateProvider(pid, patch)

SpecMirror == Init /\ [][NextMirror]_vars

\* C22: in every state the active flag of every ProviderModel row equals the
\* active flag of its parent provider.
C22_ActiveMirrorsProvider ==
    \A i \in DOMAIN providerModels :
        providerModels[i].active = providers[providerModels[i].provider].active


(* ------------------------ a failure inside a batch --------------------- *)

FaultBatches ==
    {<<m>> : m \in {x \in CatalogModels : x.raw = "r1"}}
    \cup {<<m, n>> \in CatalogModels \X CatalogModels :
              m.raw = "r1" /\ n.raw = "r1" /\ m.id # n.id}

FaultSets == {{}, {<<"m">>}, {<<"n">>}}

NextFaults ==
    \/ \E input \in CatalogRegisterInputs : RegisterProvider(input)
    \/ \E pid \in 1..MaxProviders, batch \in FaultBatches, faults \in FaultSets :
           SyncWithFaults(pid, batch, faults)

SpecFaults == Init /\ [][NextFaults]_vars

\* C23: when the upsert of one model of a batch fails for a reason other than
\* a missing model key, the sync still syncs every other model of the batch:
\* each of them has its ProviderModel row afterwards.
C23_FailureDoesNotAbortBatch ==
    [][(lastOp'.op = "sync" /\ lastOp'.err # "model_id_missing")
       => \A i \in DOMAIN lastOp'.models :
              lastOp'.models[i].id \notin lastOp'.faults
              => ProviderModelFind(providerModels', lastOp'.provider,
                                   lastOp'.models[i].id) # << >>]_vars


(* ----------------------- the cache store failing ----------------------- *)

\* how the key-value store fails during one operation: "down" fails every
\* call, "readonly" answers reads and fails every write and delete
CacheFaults == {"down", "readonly"}

\* the cache as the operation's reads see it
ReadView(c, fault) == IF fault = "down" THEN EmptyCache ELSE c

\* ListModels: a failed read is a miss; the writes of the rebuild are ignored
ListModelsFaulty(c, b, fault) ==
    LET r == ListModelsResult(ReadView(c, fault), b)
    IN [models |-> r.models, cache |-> c]

\* GetModelToEndpoints: after a rebuild that could write nothing, the second
\* read misses too and the empty map is returned
GetModelToEndpointsFaulty(c, b, fault) ==
    LET seen == ReadView(c, fault)
    IN [cache |-> c,
        modelToEndpoints |-> IF seen.modelEndpoints = Nil
                             THEN EndpointsOf(<< >>, serviceBaseURL)
                             ELSE seen.modelEndpoints[1][2]]

\* SetModels: the results of Unlink and DeletePattern are dropped, the error
\* of the first Set is returned
SetModelsFaulty(c, serviceName, models, fault) ==
    IF TrimSpace(serviceName) = << >>
    THEN [err |-> "service_name_empty", cache |-> c]
    ELSE IF ~hasModelsChanged(ReadView(c, fault), serviceName, models)
    THEN [err |-> "ok", cache |-> c]
    ELSE [err |-> "cache_error", cache |-> c]

\* RemoveServiceModels: a failed read of the backend's entry is "nothing to
\* do"; the error of the Unlink is returned
RemoveServiceModelsFaulty(c, serviceName, fault) ==
    IF TrimSpace(serviceName) = << >>
    THEN [err |-> "service_name_empty", cache |-> c]
    ELSE IF sanitizeKeyPart(serviceName) \notin DOMAIN ReadView(c, fault).endpointModels
    THEN [err |-> "ok", cache |-> c]
    ELSE [err |-> "cache_error", cache |-> c]

\* one operation of the registry while the store fails
FaultyOperation(op, serviceName, models, fault) ==
    /\ LET r == CASE op = "ListModels" -> ListModelsFaulty(cache, backend, fault)
                  [] op = "GetModelToEndpoints" ->
                         GetModelToEndpointsFaulty(cache, backend, fault)
                  [] op = "SetModels" -> SetModelsFaulty(cache, serviceName, models, fault)
                  [] op = "RemoveServiceModels" ->
                         RemoveServiceModelsFaulty(cache, serviceName, fault)
       IN /\ cache' = r.cache
          /\ lastOp' = [op |-> op, name |-> serviceName, models |-> models,
                        fault |-> fault,
                        err |-> IF "err" \in DOMAIN r THEN r.err ELSE "ok"]
    /\ UNCHANGED <<regVars, taskVars, backend, stream>>

CacheOperations == {"ListModels", "GetModelToEndpoints", "SetModels", "RemoveServiceModels"}

\* the lists handed to SetModels here: none, or one of the model ids
FaultLists == {<< >>} \cup {<<id>> : id \in ModelIDs}

NextCacheFaults ==
    \/ \E name \in ServiceNames, models \in FaultLists : SetModels(name, models)
    \/ \E name \in ServiceNames : RemoveServiceModels(name)
    \/ ListModels
    \/ GetModelToEndpoints
    \/ \E b \in BackendStates : BackendChange(b)
    \/ \E op \in {"ListModels", "GetModelToEndpoints"}, fault \in CacheFaults :
           FaultyOperation(op, serviceBaseURL, << >>, fault)
    \/ \E name \in ServiceNames, models \in FaultLists, fault \in CacheFaults :
           FaultyOperation("SetModels", name, models, fault)
    \/ \E name \in ServiceNames, fault \in CacheFaults :
           FaultyOperation("RemoveServiceModels", name, << >>, fault)

SpecCacheFaults == Init /\ [][NextCacheFaults]_vars

\* C24: no operation of the model cache returns an error to its caller
\* because a cache read, write or delete failed.
C24_CacheErrorsAbsorbed ==
    (lastOp.op \in CacheOperations /\ "fault" \in DOMAIN lastOp) => lastOp.err = "ok"


(* ------------------- the cache as a derived structure ------------------ *)

\* the operations of the registry with a backend that stays reachable and
\* keeps reporting the list of the initial state; the configured backend's
\* entries are written from that list only, a second backend's from any list
OtherService == <<"o">>

NextDerived ==
    \/ \E models \in ModelLists : SetModels(OtherService, models)
    \/ RemoveServiceModels(OtherService)
    \/ ListModels
    \/ GetModelToEndpoints
    \/ CheckInferenceModels
    \/ \E kind \in DOMAIN EmptyCache : Expire(kind)

SpecDerived == Init /\ [][NextDerived]_vars

\* ListModels and then GetModelToEndpoints on a cache without entries
RebuiltList == ListModelsResult(EmptyCache, backend)
RebuiltMap == GetModelToEndpointsResult(RebuiltList.cache, backend)

\* C25: with the backend reachable and unchanged, deleting every entry and
\* then calling ListModels and GetModelToEndpoints gives the set of model ids
\* and the reverse map that were cached before the deletion.
C25_ClearedThenRebuiltEqual ==
    backend # Nil
    => /\ cache.models # Nil
          => Range(RebuiltList.models) = Range(UnmarshalList(cache.models[1]))
       /\ cache.modelEndpoints # Nil
          => RebuiltMap.modelToEndpoints = cache.modelEndpoints[1][2]


(* --------------- SetModels and RemoveServiceModels interleaved --------- *)

\* the lists the backend reports in turn, and the lists set for it
HealBackends == {Some(<< >>), Some(<<"m1">>)}

HealLists == {<<"m1">>, <<"m2">>}

\* task t1 sets the configured backend's models while task t2 removes them;
\* the aggregate entry expires, the backend changes its list, and ListModels
\* is called
NextHeal ==
    \/ \E models \in HealLists : JobBegin("t1", "SetModels", serviceBaseURL, models)
    \/ JobBegin("t2", "RemoveServiceModels", serviceBaseURL, << >>)
    \/ \E t \in Tasks : SetStep(t)
    \/ \E t \in Tasks : RemoveStep(t)
    \/ \E t \in Tasks : RebuildStep(t)
    \/ Expire("models")
    \/ \E b \in HealBackends : BackendChange(b)
    \/ ListModels

SpecHeal == Init /\ [][NextHeal]_vars

JobsAtRest == \A t \in Tasks : jobs[t].pc \in {"idle", "done"}

\* the three entries as one rebuild from the list writes them
WrittenFrom(c, models) ==
    /\ c.models = Some(JSONList(models))
    /\ sanitizeKeyPart(serviceBaseURL) \in DOMAIN c.endpointModels
    /\ c.endpointModels[sanitizeKeyPart(serviceBaseURL)] = JSONList(models)
    /\ c.modelEndpoints = Some(JSONMap(EndpointsOf(models, serviceBaseURL)))

\* a ListModels step that misses, with the backend reachable and no
\* operation in progress
HealingRead ==
    /\ lastOp'.op = "ListModels"
    /\ cache.models = Nil
    /\ backend # Nil
    /\ JobsAtRest

\* C26: after the aggregate entry has expired, the next ListModels
\* returns the backend's current list and rewrites the aggregate, the
\* per-backend entry and the reverse map from it.
C26_MissRewritesAllEntries ==
    [][HealingRead => (lastOp'.models = backend[1] /\ WrittenFrom(cache', backend[1]))]_vars


(* ------------------------ concurrent ListModels ------------------------ *)

ListBackends == {Some(<<"m1">>), Some(<<"m2">>)}

\* the tasks call ListModels on a cache without entries while the backend
\* changes the list it reports
NextListConc ==
    \/ \E t \in Tasks : JobBegin(t, "ListModels", serviceBaseURL, << >>)
    \/ \E t \in Tasks : ListStep(t)
    \/ \E b \in ListBackends : BackendChange(b)

SpecListConc == Init /\ [][NextListConc]_vars

\* the task's ListModels has returned after a miss and a rebuild
RebuiltAndDone(t) == jobs[t].pc = "done" /\ jobs[t].got # << >>

\* C27: when concurrent ListModels calls have all missed and completed, each
\* has returned the list its own rebuild fetched, and the aggregate list, the
\* per-backend entry and the reverse map are those written by one and the
\* same rebuild.
C27_OneRebuildWins ==
    (\A t \in Tasks : RebuiltAndDone(t))
    => /\ \A t \in Tasks : jobs[t].models = jobs[t].got
       /\ \E t \in Tasks : WrittenFrom(cache, jobs[t].got)


(* ---------------------- the reverse map's backends --------------------- *)

\* the reverse map that is cached, or the empty map when none is
CachedReverseMap ==
    IF cache.modelEndpoints = Nil THEN EndpointsOf(<< >>, serviceBaseURL)
    ELSE cache.modelEndpoints[1][2]

UpdateKey == <<"w", "x", "y", "z", "k">>

UpdateMetadata == [k \in {<<" ", "a">>, <<" ">>} |-> <<"v", " ">>]

\* the one registration updates start from: a provider with key and metadata
UpdateRegistration ==
    [RegisterInput(<<DefaultOrgID, 0>>, <<"a">>, "openai", "ok/", TRUE) EXCEPT
        !.apiKey = UpdateKey, !.metadata = UpdateMetadata]

\* patches with every field absent, accepted, or refused; the secret is
\* missing only where it is read
UpdatePatches ==
    {patch \in [name : {Nil, Some(<<"b", " ">>), Some(<<" ">>)},
                baseURL : {Nil, Some("ok2/"), Some("malformed")},
                apiKey : {Nil, Some(<<" ">>), Some(<<"k">>)},
                metadata : {Nil, Some(<< >>)},
                active : {Nil, Some(FALSE)},
                secret : {<< >>, ModelProviderSecret}] :
        patch.secret = << >> => patch.apiKey = Some(<<"k">>)}

NextUpdate ==
    \/ RegisterProvider(UpdateRegistration)
    \/ \E pid \in 1..MaxProviders, patch \in UpdatePatches : UpdateProvider(pid, patch)

SpecUpdate == Init /\ [][NextUpdate]_vars

\* what a patch leaves alone between two values of a provider object
PatchKeeps(patch, old, new) ==
    /\ patch.name = Nil => new.name = old.name
    /\ patch.baseURL = Nil => new.baseURL = old.baseURL
    /\ patch.apiKey = Nil =>
           new.encryptedAPIKey = old.encryptedAPIKey /\ new.apiKeyHint = old.apiKeyHint
    /\ patch.metadata = Nil => new.metadata = old.metadata
    /\ patch.active = Nil => new.active = old.active
    /\ new.slug = old.slug /\ new.publicID = old.publicID /\ new.kind = old.kind
    /\ new.org = old.org /\ new.project = old.project

\* C29: UpdateProvider changes only the fields its patch supplies: name, base
\* URL, key with hint, metadata and active flag keep their value when their
\* patch field is absent, and slug, public id, kind, organization and project
\* are never changed, in the object the call leaves and in the stored row
C29_OnlySuppliedFieldsChange ==
    [][lastOp'.op = "update" =>
          /\ PatchKeeps(lastOp'.patch, providers[lastOp'.provider], lastOp'.object)
          /\ PatchKeeps(lastOp'.patch, providers[lastOp'.provider], providers'[lastOp'.provider])
          /\ \A i \in DOMAIN providers : i # lastOp'.provider => providers'[i] = providers[i]]_vars

\* an accepted update of the active flag alone, on a provider that keeps its
\* name, base URL, key, hint and metadata
C29_Witness ==
    /\ lastOp.op = "update" /\ lastOp.err = "ok"
    /\ lastOp.patch.active = Some(FALSE) /\ lastOp.patch.apiKey = Nil
    /\ lastOp.patch.name = Nil /\ lastOp.patch.baseURL = Nil /\ lastOp.patch.metadata = Nil
    /\ ~providers[lastOp.provider].active
    /\ providers[lastOp.provider].name = <<"a">>
    /\ providers[lastOp.provider].baseURL = "ok"
    /\ providers[lastOp.provider].apiKeyHint = Some(<<"x", "y", "z", "k">>)
    /\ providers[lastOp.provider].encryptedAPIKey = EncryptString(ModelProviderSecret, UpdateKey)
    /\ providers[lastOp.provider].metadata = [k \in {<<"a">>} |-> <<"v">>]

(* -------------------- RegisterProvider: refused calls ------------------ *)

\* registrations that pass and registrations refused for each reason: blank
\* name, blank or malformed base URL, a vendor kind already in the scope, a
\* key while no secret is configured
RefusedRegisterInputs ==
    {[RegisterInput(<<DefaultOrgID, 0>>, name, vendor, baseURL, TRUE) EXCEPT
         !.apiKey = key, !.secret = secret] :
        name \in {<<"a">>, <<" ">>}, vendor \in {"openai", "openrouter"},
        baseURL \in {"ok", "", "malformed"}, key \in {<< >>, UpdateKey},
        secret \in {<<" ">>, ModelProviderSecret}}

NextRefused == \E input \in RefusedRegisterInputs : RegisterProvider(input)

SpecRefused == Init /\ [][NextRefused]_vars

RegisterErrors == {"name_required", "base_url_required", "base_url_invalid", "kind_exists",
                   "secret_not_configured"}

\* C30: a RegisterProvider call that returns an error (blank name, blank or
\* malformed base URL, vendor kind already registered in the scope, key given
\* while no secret is configured) leaves the provider store as it was, and
\* a call is refused with one of these errors or accepted
C30_RefusedRegistrationStoresNothing ==
    [][lastOp'.op = "register" =>
          /\ lastOp'.err \in RegisterErrors \cup {"ok"}
          /\ lastOp'.err \in RegisterErrors =>
                 providers' = providers /\ providerModels' = providerModels
                 /\ catalogs' = catalogs]_vars

\* a registration with a key refused for the missing secret, after one was
\* accepted, with the accepted row still the only one
C30_Witness ==
    /\ lastOp.op = "register" /\ lastOp.err = "secret_not_configured"
    /\ lastOp.input.apiKey = UpdateKey /\ TrimSpace(lastOp.input.secret) = << >>
    /\ Len(providers) = 1

(* ------------------------------ key hints ------------------------------ *)

\* keys shorter than, as long as and longer than a hint, one with blanks around
HintKeys == {<<"a", "b", "c">>, <<"w", "x", "y", "z">>, <<" ", "v", "w", "x", "y", "z", " ">>}

HintRegisterInputs ==
    {[RegisterInput(<<DefaultOrgID, 0>>, <<"a">>, vendor, "ok", TRUE) EXCEPT !.apiKey = key] :
        vendor \in {"openai", "openrouter"}, key \in HintKeys \cup {<< >>}}

HintPatches ==
    [name : {Nil}, baseURL : {Nil}, apiKey : {Some(key) : key \in HintKeys \cup {<< >>}},
     metadata : {Nil}, active : {Nil}, secret : {ModelProviderSecret}]

NextHint ==
    \/ \E input \in HintRegisterInputs : RegisterProvider(input)
    \/ \E pid \in 1..MaxProviders, patch \in HintPatches : UpdateProvider(pid, patch)

SpecHint == Init /\ [][NextHint]_vars

\* the hint the claim allows for a plaintext key: absent, or its last four
\* characters provided they are not the whole key
RedactedHint(hint, key) ==
    hint # Nil =>
        /\ Len(key) >= HintLen
        /\ hint[1] = SubSeq(key, Len(key) - HintLen + 1, Len(key))
        /\ hint[1] # key

\* C31: for every API key accepted by RegisterProvider or UpdateProvider the
\* stored key hint, when present, is the last 4 characters of the plaintext
\* key and is never equal to the whole plaintext key
C31_HintIsRedacted ==
    /\ lastOp.op = "register" /\ lastOp.err = "ok" /\ TrimSpace(lastOp.input.apiKey) # << >> =>
           RedactedHint(providers[Len(providers)].apiKeyHint, TrimSpace(lastOp.input.apiKey))
    /\ lastOp.op = "update" /\ lastOp.err = "ok" /\ lastOp.patch.apiKey # Nil
       /\ TrimSpace(lastOp.patch.apiKey[1]) # << >> =>
           RedactedHint(providers[lastOp.provider].apiKeyHint, TrimSpace(lastOp.patch.apiKey[1]))

(* ---------------------- provider listing endpoint ---------------------- *)

\* the bytes Go compares strings by, for the characters of provider names
ByteOf == [ch \in {" ", "B", "a", "b"} |->
              IF ch = " " THEN 32 ELSE IF ch = "B" THEN 66 ELSE IF ch = "a" THEN 97 ELSE 98]

\* a < b on Go strings
RECURSIVE StringLess(_, _)
StringLess(a, b) ==
    IF b = << >> THEN FALSE
    ELSE IF a = << >> THEN TRUE
    ELSE IF Head(a) # Head(b) THEN ByteOf[Head(a)] < ByteOf[Head(b)]
    ELSE StringLess(Tail(a), Tail(b))

scopeOrder == [jan |-> 0, organization |-> 1, project |-> 2]

getScopeOrder(scope) ==
    IF scope \in DOMAIN scopeOrder THEN scopeOrder[scope] ELSE Cardinality(DOMAIN scopeOrder)

\* the scope label listProviders gives a provider
ScopeLabel(provider) ==
    IF provider.project # Nil THEN "project"
    ELSE IF provider.org = Nil THEN "jan"
    ELSE "organization"

providerSummary(provider) ==
    [id |-> provider.publicID, slug |-> provider.slug, name |-> provider.name,
     vendor |-> provider.kind, scope |-> ScopeLabel(provider)]

\* the less function handed to sort.Slice
SummaryLess(x, y) ==
    IF x.scope = y.scope THEN StringLess(x.name, y.name)
    ELSE getScopeOrder(x.scope) < getScopeOrder(y.scope)

\* sort.Slice is not stable: every ordering of the items with no item less
\* than an earlier one is a possible outcome
SortOutcomes(data) ==
    LET n == Len(data)
        perms == {f \in [1..n -> 1..n] : \A i, j \in 1..n : i # j => f[i] # f[j]}
    IN {[i \in 1..n |-> data[f[i]]] : f \in {g \in perms :
            \A i, j \in 1..n : i < j => ~SummaryLess(data[g[j]], data[g[i]])}}

\* GET providers for a caller: ResolveAccessibleProviders, the summaries, the sort
listProviders(caller) ==
    /\ \E data \in SortOutcomes([i \in DOMAIN ListAccessibleProviders(providers, caller.org, caller.projectIDs) |->
                                    providerSummary(ListAccessibleProviders(providers, caller.org, caller.projectIDs)[i])]) :
           lastOp' = [op |-> "listProviders", caller |-> caller, data |-> data]
    /\ UNCHANGED <<regVars, taskVars, cacheVars, stream>>

EndpointRegisterInputs ==
    {RegisterInput(scope, name, "acme", "ok", TRUE) :
        scope \in {<<DefaultOrgID, 0>>, <<OtherOrgID, 0>>, <<OtherOrgID, 1>>},
        name \in {<<"a">>, <<"b">>}}

NextEndpoint ==
    \/ \E input \in EndpointRegisterInputs : RegisterProvider(input)
    \/ \E caller \in Callers : listProviders(caller)

SpecEndpoint == Init /\ [][NextEndpoint]_vars

\* the place the claim gives a scope label: project first, organization next,
\* platform-default last
ClaimedScopeRank(scope) == IF scope = "project" THEN 0 ELSE IF scope = "organization" THEN 1 ELSE 2

\* C32: the provider listing endpoint returns the caller's accessible
\* providers sorted by scope priority, project-scoped first, then
\* organization-scoped, then platform-default, and within one scope by
\* ascending name
C32_ListedByScopeThenName ==
    lastOp.op = "listProviders" =>
        \A i, j \in DOMAIN lastOp.data : i < j =>
            \/ ClaimedScopeRank(lastOp.data[i].scope) < ClaimedScopeRank(lastOp.data[j].scope)
            \/ /\ lastOp.data[i].scope = lastOp.data[j].scope
               /\ ~StringLess(lastOp.data[j].name, lastOp.data[i].name)

(* ------------------------ model listing endpoint ----------------------- *)

StatusBadGateway == 502

\* providerModelService.ListActiveByProviderIDs: the active rows of the providers
ListActiveByProviderIDs(pms, providerIDs) ==
    SelectSeq(pms, LAMBDA pm : pm.provider \in providerIDs /\ pm.active)

\* MergeModels: the ids of the Jan backend's models and the keys of the rows
MergeModels(janModels, rows) ==
    {janModels[i] : i \in DOMAIN janModels} \cup {rows[i].key : i \in DOMAIN rows}

\* a listing that leaves the Jan backend's models out
GetModelsResultRowsOnly(store, pms, caller, jan) ==
    LET list == ListAccessibleProviders(store, caller.org, caller.projectIDs)
        providerIDs == {list[i].id : i \in DOMAIN list}
    IN IF jan = Nil THEN [status |-> StatusBadGateway, ids |-> {}]
       ELSE [status |-> StatusOK,
             ids |-> MergeModels(<< >>, ListActiveByProviderIDs(pms, providerIDs))]

\* GET models: the status and the set of model ids in the answer; jan is what
\* modelClient.ListModels of the Jan backend gives, Nil when it fails
GetModelsResult(store, pms, caller, jan) ==
    LET list == ListAccessibleProviders(store, caller.org, caller.projectIDs)
        providerIDs == {list[i].id : i \in DOMAIN list}
    IN IF jan = Nil THEN [status |-> StatusBadGateway, ids |-> {}]
       ELSE [status |-> StatusOK,
             ids |-> MergeModels(jan[1], ListActiveByProviderIDs(pms, providerIDs))]

GetModels(caller, jan) ==
    /\ \E r \in {GetModelsResult(providers, providerModels, caller, jan)} :
           lastOp' = [op |-> "GetModels", caller |-> caller, jan |-> jan,
                      status |-> r.status, ids |-> r.ids]
    /\ UNCHANGED <<regVars, taskVars, cacheVars, stream>>

\* the two discovered models of the scenario
ScenarioModels ==
    << [id |-> <<"m">>, slug |-> << >>, raw |-> "r1"], [id |-> <<"n">>, slug |-> << >>, raw |-> "r1"] >>

\* what the Jan backend answers: nothing, an empty list, a model of its own,
\* a model P1 has too
JanAnswers == {Nil, Some(<< >>), Some(<< <<"j">> >>), Some(<< <<"m">> >>)}

NextScenario ==
    \/ \E active \in BOOLEAN :
           RegisterProvider(RegisterInput(<<OtherOrgID, 0>>, <<"a">>, "acme", "ok", active))
    \/ \E pid \in 1..MaxProviders : SyncProviderModels(pid, ScenarioModels)
    \/ \E caller \in Callers, jan \in JanAnswers : GetModels(caller, jan)

SpecScenario == Init /\ [][NextScenario]_vars

\* P1 alone is registered, of kind custom, synced with the two models, and
\* the caller of the last listing belongs to its organization
ScenarioListed ==
    /\ lastOp.op = "GetModels"
    /\ Len(providers) = 1 /\ providers[1].kind = ProviderCustom /\ providers[1].synced
    /\ {providerModels[i].key : i \in DOMAIN providerModels} = {<<"m">>, <<"n">>}
    /\ Some(lastOp.caller.org) = providers[1].org

NextDeactivate ==
    \/ \E active \in BOOLEAN :
           RegisterProvider(RegisterInput(<<OtherOrgID, 0>>, <<"a">>, "acme", "ok", active))
    \/ \E pid \in 1..MaxProviders, m \in DiscoveredModels : SyncProviderModels(pid, <<m>>)
    \/ \E pid \in 1..MaxProviders, patch \in ActivePatches : UpdateProvider(pid, patch)
    \/ \E key \in ModelKeys, caller \in Callers :
           GetProviderForModelOrDefault(key, caller.org, caller.projectIDs)

SpecDeactivate == Init /\ [][NextDeactivate]_vars

\* C34: GetProviderForModel never returns a provider whose active flag is
\* false: once UpdateProvider has set a provider inactive, no resolution of
\* any model key returns that provider
C34_ResolvedProviderIsActive ==
    lastOp.op = "resolve" /\ ~lastOp.usedDefault => lastOp.provider.active

(* --------------------------- startup install --------------------------- *)

\* the kind of the built-in Jan provider
ProviderJan == "jan"

\* the registration setupJanProvider makes ("Jan Shared Key", key "none")
JanRegistration(secret) ==
    [RegisterInput(<<DefaultOrgID, 0>>, <<"J", "a", "n">>, ProviderJan, "ok", TRUE) EXCEPT
        !.apiKey = <<"n", "o", "n", "e">>, !.metadata = [k \in {<<"d">>} |-> <<"a">>],
        !.secret = secret]

\* setupJanProvider's search: an organization-level provider of kind Jan
\* among the providers of the default organization
JanProviderExists(store) ==
    LET list == ListAccessibleProviders(store, DefaultOrgID, {})
    IN \E i \in DOMAIN list : list[i].kind = ProviderJan /\ list[i].project = Nil

\* the sync that ends setupJanProvider, on the provider just registered
InstallSync(store, discovered) ==
    LET provider == store[Len(store)]
        r == syncModels(provider, discovered,
                 [err |-> "ok", cats |-> catalogs, pms |-> providerModels,
                  wrote |-> {}, results |-> << >>, faults |-> {}])
    IN [err |-> r.err, cats |-> r.cats, pms |-> r.pms,
        store |-> IF r.err = "ok" THEN ProviderUpdate(store, [provider EXCEPT !.synced = TRUE])
                  ELSE store]

\* DataInitializer.Install with Jan setup enabled; secret is the configured
\* MODEL_PROVIDER_SECRET, discovered what the backend's model listing gives
\* (Nil when it fails)
Install(secret, discovered) ==
    /\ Len(providers) < MaxProviders
    /\ IF JanProviderExists(providers)
       THEN /\ lastOp' = [op |-> "Install", err |-> "ok", registered |-> FALSE]
            /\ UNCHANGED regVars
       ELSE \E r \in {RegisterResult(providers, JanRegistration(secret))} :
                IF r.err # "ok"
                THEN /\ lastOp' = [op |-> "Install", err |-> r.err, registered |-> FALSE]
                     /\ UNCHANGED regVars
                ELSE IF discovered = Nil
                THEN /\ providers' = r.store
                     /\ lastOp' = [op |-> "Install", err |-> "discover_failed", registered |-> TRUE]
                     /\ UNCHANGED <<providerModels, catalogs>>
                ELSE \E s \in {InstallSync(r.store, discovered[1])} :
                         /\ providers' = s.store
                         /\ providerModels' = s.pms
                         /\ catalogs' = s.cats
                         /\ lastOp' = [op |-> "Install", err |-> s.err, registered |-> TRUE]
    /\ UNCHANGED <<taskVars, cacheVars, stream>>

InstallDiscoveries == {Nil, Some(<< >>), Some(ScenarioModels)} \cup {Some(<<m>>) : m \in DiscoveredModels}

NextInstall ==
    \/ \E secret \in {<< >>, ModelProviderSecret}, discovered \in InstallDiscoveries :
           Install(secret, discovered)
    \/ \E pid \in 1..MaxProviders, patch \in ActivePatches : UpdateProvider(pid, patch)

SpecInstall == Init /\ [][NextInstall]_vars

\* the organization-level providers of the default organization that an
\* Install registered
InstalledJanProviders ==
    {i \in DOMAIN providers :
        /\ providers[i].org = Some(DefaultOrgID) /\ providers[i].project = Nil
        /\ providers[i].name = JanRegistration(<< >>).name}

\* C35: startup installation of the built-in Jan provider is idempotent: the
\* default organization never holds more than one organization-level Jan
\* provider, it holds exactly one after an Install that succeeded, and an
\* Install that finds one registers nothing
C35_InstallIdempotent ==
    /\ [](Cardinality(InstalledJanProviders) <= 1)
    /\ [](lastOp.op = "Install" /\ lastOp.err = "ok" => Cardinality(InstalledJanProviders) = 1)
    /\ [][lastOp'.op = "Install" /\ InstalledJanProviders # {} => providers' = providers]_vars

(* ----------------------- register-provider endpoint -------------------- *)

StatusInternalServerError == 500

\* POST providers by an administrator of organization org: RegisterProvider,
\* the discovery of the new provider's models (Nil when it fails) and their sync
registerProvider(org, input, discovered) ==
    /\ Len(providers) < MaxProviders
    /\ \E r \in {RegisterResult(providers, [input EXCEPT !.org = org, !.project = 0])} :
           IF r.err # "ok"
           THEN /\ lastOp' = [op |-> "registerProvider", input |-> input, org |-> org,
                              status |-> StatusBadRequest]
                /\ UNCHANGED regVars
           ELSE IF discovered = Nil
           THEN /\ providers' = r.store
                /\ lastOp' = [op |-> "registerProvider", input |-> input, org |-> org,
                              status |-> StatusBadGateway]
                /\ UNCHANGED <<providerModels, catalogs>>
           ELSE \E s \in {InstallSync(r.store, discovered[1])} :
                    /\ providers' = s.store
                    /\ providerModels' = s.pms
                    /\ catalogs' = s.cats
                    /\ lastOp' = [op |-> "registerProvider", input |-> input, org |-> org,
                                  status |-> IF s.err = "ok" THEN StatusOK
                                             ELSE StatusInternalServerError]
    /\ UNCHANGED <<taskVars, cacheVars, stream>>

\* a discovered model without an identifier
UnnamedModel == [id |-> << >>, slug |-> << >>, raw |-> "r1"]

EndpointDiscoveries ==
    {Nil, Some(<< >>), Some(<<UnnamedModel>>)} \cup {Some(<<m>>) : m \in DiscoveredModels}

NextAtomic ==
    \E vendor \in {"openai", "openrouter"}, active \in BOOLEAN, discovered \in EndpointDiscoveries :
        registerProvider(OtherOrgID, RegisterInput(<<0, 0>>, <<"a">>, vendor, "ok", active),
                         discovered)

SpecAtomic == Init /\ [][NextAtomic]_vars

\* C36: the register-provider endpoint is atomic with respect to discovery:
\* when model discovery or model sync fails after the provider was created,
\* no provider row remains persisted, so the same request can be retried
C36_FailedDiscoveryLeavesNoProvider ==
    [][lastOp'.op = "registerProvider"
       /\ lastOp'.status \in {StatusBadGateway, StatusInternalServerError}
       => providers' = providers]_vars

(* --------------------- aggregate and per-backend lists ----------------- *)

\* the operations of the registry one at a time, and the expiry of entries
NextExpiry ==
    \/ \E name \in ServiceNames, models \in ModelLists : SetModels(name, models)
    \/ \E name \in ServiceNames : RemoveServiceModels(name)
    \/ ListModels
    \/ GetModelToEndpoints
    \/ CheckInferenceModels
    \/ \E b \in BackendStates : BackendChange(b)
    \/ \E kind \in DOMAIN EmptyCache : Expire(kind)

SpecExpiry == Init /\ [][NextExpiry]_vars

\* C37: in every reachable cache state, states reached after entries expired
\* included, every model id of the aggregate model list is in the id list of
\* some per-backend entry
C37_AggregateWithinBackendLists ==
    cache.models # Nil =>
        \A id \in Range(UnmarshalList(cache.models[1])) :
            \E key \in DOMAIN cache.endpointModels :
                id \in Range(UnmarshalList(cache.endpointModels[key]))


\* C37 amended: every operation of the registry, run on its own, that starts in a cache state
\* where each id of the aggregate list is in some per-backend entry ends in
\* such a state, and the empty cache is one; only the expiry of a per-backend
\* entry while the aggregate list remains leaves ids without an entry
C37_OperationsKeepAggregateWithin ==
    [][C37_AggregateWithinBackendLists /\ lastOp'.op # "Expire"
       => C37_AggregateWithinBackendLists']_vars

\* a SetModels or a rebuilding ListModels that left a non-empty aggregate list
\* whose ids all lie in the per-backend entry written with it
C37_Witness ==
    /\ lastOp.op \in {"SetModels", "ListModels"}
    /\ cache.models # Nil /\ UnmarshalList(cache.models[1]) # << >>
    /\ DOMAIN cache.endpointModels # {}
    /\ C37_AggregateWithinBackendLists

(* ------------------------ update-provider endpoint --------------------- *)

StatusNotFound == 404

\* providerRepo.FindByPublicID: the row, or Nil
ProviderFindByPublicID(store, publicID) ==
    LET found == SelectSeq(store, LAMBDA p : p.publicID = publicID)
    IN IF found = << >> THEN Nil ELSE Some(found[1])

\* an endpoint that checks neither the organization nor the project of its target
updateProviderUnchecked(store, org, publicID, patch) ==
    LET target == ProviderFindByPublicID(store, publicID)
    IN IF publicID = << >> THEN [status |-> StatusBadRequest, store |-> store]
       ELSE IF target = Nil THEN [status |-> StatusNotFound, store |-> store]
       ELSE LET r == UpdateProviderResult(target[1], patch)
            IN IF r.err # "ok" THEN [status |-> StatusBadRequest, store |-> store]
               ELSE [status |-> StatusOK, store |-> ProviderUpdate(store, r.provider)]

\* PATCH providers/:provider_public_id by an administrator of organization
\* org: the status of the answer and the store afterwards
updateProviderResult(store, org, publicID, patch) ==
    LET target == ProviderFindByPublicID(store, publicID)
    IN IF publicID = << >> THEN [status |-> StatusBadRequest, store |-> store]
       ELSE IF target = Nil THEN [status |-> StatusNotFound, store |-> store]
       ELSE IF target[1].org = Nil \/ target[1].org # Some(org)
       THEN [status |-> StatusNotFound, store |-> store]
       ELSE IF target[1].project # Nil THEN [status |-> StatusBadRequest, store |-> store]
       ELSE LET r == UpdateProviderResult(target[1], patch)
            IN IF r.err # "ok" THEN [status |-> StatusBadRequest, store |-> store]
               ELSE [status |-> StatusOK, store |-> ProviderUpdate(store, r.provider)]

updateProvider(org, publicID, patch) ==
    /\ \E r \in {updateProviderResult(providers, org, publicID, patch)} :
           /\ providers' = r.store
           /\ lastOp' = [op |-> "updateProvider", org |-> org, publicID |-> publicID,
                         patch |-> patch, status |-> r.status]
    /\ UNCHANGED <<providerModels, catalogs, taskVars, cacheVars, stream>>

\* the ids of the path: none, the ids of stored providers, one of no provider
PathIDs == {<< >>} \cup {<<"prov", n>> : n \in 1..(MaxProviders + 1)}

EndpointPatches ==
    ActivePatches \cup
    [name : {Some(<<"b">>), Some(<<" ">>)}, baseURL : {Nil}, apiKey : {Nil}, metadata : {Nil},
     active : {Nil}, secret : {ModelProviderSecret}]

NextGuarded ==
    \/ \E scope \in Scopes : RegisterProvider(RegisterInput(scope, <<"a">>, "openai", "ok", TRUE))
    \/ \E org \in Orgs, publicID \in PathIDs, patch \in EndpointPatches :
           updateProvider(org, publicID, patch)

SpecGuarded == Init /\ [][NextGuarded]_vars

\* provider row p is outside what an administrator of org may update here
Foreign(p, org) == p.org # Some(org) \/ p.project # Nil

\* C38: the update-provider endpoint never modifies a provider of another
\* organization than the caller's or a project-scoped provider: for such a
\* target it answers with an error and the provider store is unchanged, and
\* no call changes any such row
C38_ForeignProviderUntouched ==
    [][lastOp'.op = "updateProvider" =>
          /\ \A i \in DOMAIN providers :
                 Foreign(providers[i], lastOp'.org) => providers'[i] = providers[i]
          /\ (\E i \in DOMAIN providers :
                  providers[i].publicID = lastOp'.publicID /\ Foreign(providers[i], lastOp'.org))
             => /\ lastOp'.status \in {StatusNotFound, StatusBadRequest}
                /\ providers' = providers]_vars

\* a patch aimed at a provider of another organization, answered not found
C38_Witness ==
    /\ lastOp.op = "updateProvider" /\ lastOp.status = StatusNotFound
    /\ lastOp.patch.active = Some(FALSE)
    /\ \E i \in DOMAIN providers :
           /\ providers[i].publicID = lastOp.publicID
           /\ providers[i].org # Some(lastOp.org) /\ providers[i].project = Nil
           /\ providers[i].active

(* ---------------------- one provider per vendor kind ------------------- *)

\* C39: in every state reached by sequential RegisterProvider and
\* UpdateProvider calls there is at most one provider, active or inactive, of
\* each non-custom vendor kind in each organization and project scope
C39_OnePerKindAndScope ==
    \A i, j \in DOMAIN providers :
        (/\ providers[i].kind # ProviderCustom
         /\ providers[i].kind = providers[j].kind
         /\ providers[i].org = providers[j].org
         /\ providers[i].project = providers[j].project) => i = j

\* the only provider of its kind and scope was deactivated by UpdateProvider,
\* and the store still holds no second one while another scope has its own
C39_Witness ==
    /\ lastOp.op = "update" /\ lastOp.err = "ok" /\ lastOp.patch.active = Some(FALSE)
    /\ providers[lastOp.provider].kind = ProviderOpenAI
    /\ ~providers[lastOp.provider].active
    /\ \E i \in DOMAIN providers :
           /\ i # lastOp.provider
           /\ providers[i].kind = ProviderOpenAI
           /\ providers[i].org # providers[lastOp.provider].org

(* ------------------- models without an identifier ---------------------- *)

\* discovered models whose identifier is empty or blank, with and without a
\* canonical slug
UnnamedModels ==
    {UnnamedModel, [id |-> <<" ">>, slug |-> <<"a">>, raw |-> "r1"]}

\* batches that fail at their first or at their second model
UnnamedBatches ==
    {<<u>> : u \in UnnamedModels}
    \cup {<<m, u>> : m \in DiscoveredModels, u \in UnnamedModels}
    \cup {<<m>> : m \in DiscoveredModels}

NextUnnamed ==
    \/ \E vendor \in {"openai", "openrouter"} :
           RegisterProvider(RegisterInput(<<OtherOrgID, 0>>, <<"a">>, vendor, "ok", TRUE))
    \/ \E pid \in 1..MaxProviders, batch \in UnnamedBatches : SyncProviderModels(pid, batch)

SpecUnnamed == Init /\ [][NextUnnamed]_vars

\* the model of a batch at which a sync fails for the missing identifier
FirstUnnamed(models) ==
    models[CHOOSE i \in DOMAIN models :
               /\ TrimSpace(models[i].id) = << >>
               /\ \A j \in 1..(i - 1) : TrimSpace(models[j].id) # << >>]

\* C40: when SyncProviderModels fails because a discovered model has an empty
\* identifier, no catalog row and no ProviderModel row has been written for
\* that model, and the provider's last-synced mark is unchanged
C40_UnnamedModelWritesNothing ==
    [][lastOp'.op = "sync" /\ lastOp'.err = "model_id_missing" =>
          /\ \A id \in lastOp'.wrote :
                 catalogs'[id].publicID # catalogPublicID(FirstUnnamed(lastOp'.models))
          /\ \A i \in DOMAIN providerModels' :
                 i \notin DOMAIN providerModels => TrimSpace(providerModels'[i].key) # << >>
          /\ providers'[lastOp'.provider].synced = providers[lastOp'.provider].synced]_vars

====
